---- MODULE Spec2Model ----
(***************************************************************************)
(* A model of the communal brain of dusty-schmidt/gobv2: the conversation  *)
(* manager (core/brain/conversation_manager.py) running on asyncio's       *)
(* cooperative scheduler, and the memory / knowledge store                 *)
(* (core/brain/brain.py over core/brain/storage).                          *)
(*                                                                         *)
(* A coroutine runs without interruption from one suspension point to the  *)
(* next, so every action below is one such run: it starts where a task is  *)
(* resumed and ends where it next awaits something that suspends (a        *)
(* contended lock, a database call, a listener's coroutine) or returns.    *)
(***************************************************************************)
EXTENDS Integers, Sequences, FiniteSets, TLC

\* ---------------------------------------------------------------- bounds
NumTasks == 2
MaxCalls == 4
MaxTurnsArg == 2
MaxListeners == 2
MaxStoreCalls == 3      \* calls made to the memory / knowledge store
MaxTopK == 2
EmbeddingDim == 2       \* D, the configured dimension, scaled down from 1536
Scale == 10             \* a relevance_score s stands for the float s / Scale
MaxBgCalls == 4         \* lifecycle / start / stop calls and environment steps
MaxOpTimestamp == 2     \* the timestamps of SyncOperations: 1..MaxOpTimestamp
max_lines == 4          \* the handler's max_lines, scaled down from 1000
max_age_days == 1       \* the handler's max_age_days, scaled down from 7
CleanupEvery == 2       \* emit cleans up at every 100th line, scaled down
MaxEmits == 6
MaxLogDays == 3
MaxObjects == 4          \* objects built by factories, classes and callers
MaxItemTimestamp == 2   \* the timestamps of stored items: 1..MaxItemTimestamp
max_context_tokens == 6 \* SummarizerConfig.max_context_tokens, scaled down
MaxTextLen == 36        \* context texts have 0..MaxTextLen characters
MaxChecks == 3          \* check_context_size calls per behaviour
NumCallers == 2         \* coroutines that call start / stop or initialize /
                        \* close concurrently

Tasks == 1..NumTasks
Sessions == {"nano_1"}
DeviceId == "dev_A"

\* The six public operations that take the session lock.
OpNames == {"start_conversation", "add_turn", "get_conversation_history",
            "get_conversation_summary", "export_conversation_snapshot",
            "end_conversation"}
ReadOps == {"get_conversation_history", "get_conversation_summary",
            "export_conversation_snapshot"}

EVENT_CONVERSATION_STARTED == "conversation_started"
EVENT_CONVERSATION_ENDED == "conversation_ended"
EVENT_TURN_APPENDED == "turn_appended"
Events == {EVENT_CONVERSATION_STARTED, EVENT_CONVERSATION_ENDED, EVENT_TURN_APPENDED}

\* What a registered callback does when it is called with the payload.
ListenerKinds == {"sync_ok", "sync_raise", "async_ok", "async_raise"}

VARIABLES
    \* UniversalConversationManager
    active_conversations,   \* session_id -> reference to a Conversation object
    conversation_locks,     \* session_id -> reference to an asyncio.Lock
    listeners,              \* event name -> sequence of callbacks
    objects,                \* the Conversation objects ever created (the heap)
    lockobjs,               \* the asyncio.Lock objects ever created
    \* storage (the conversations table of the SQLite backend)
    conversations,
    \* the coroutines that call the manager
    pc, call, lock, conv, loaded, data, disp, ret,
    \* environment
    clock,                  \* datetime.now() / uuid4(): strictly increasing
    calls,                  \* number of calls made so far
    workload,               \* the operations the callers use
    \* history variables
    lockOrder,              \* session_id -> its add_turn calls in the order they
                            \* took the lock
    turnOf,                 \* add_turn call -> turn_id of its turn (0: none yet)
    \* storage (the memories, knowledge and devices tables of the SQLite backend)
    memories,               \* rows in rowid order
    knowledge,              \* rows in rowid order
    devices,                \* device_id -> row
    \* the caller of the store
    result,                 \* the last call made and what it returned
    stcalls,                \* number of calls made so far
    stclock,                \* datetime.now(timezone.utc): strictly increasing
    focus,                  \* the table the callers work on
    \* history variables
    stored,                 \* per table: ids stored and not deleted since, ids
                            \* ever used, stores that met a row with their id
    \* CommunalBrain's lifecycle
    initialized,            \* CommunalBrain._initialized
    sync_task,              \* CommunalBrain._sync_task: None or a task
    schema,                 \* the tables of the database file exist
    bpc,                    \* the position of the caller of initialize / close
    opened,                 \* history: storage.initialize() and
                            \* register_device() calls made by initialize()
    \* the background workers
    tasks,                  \* the asyncio tasks ever created (the heap)
    is_running,             \* SummarizerAgent.is_running
    monitoring_task,        \* SummarizerAgent.monitoring_task: None or a task
    running,                \* SyncManager._running
    manager_sync_task,      \* SyncManager._sync_task: None or a task
    conversations_dir,      \* conversations/: file name -> file
    archive_dir,            \* archive/conversations/: file name -> file
    summaries_dir,          \* summaries/: session_id -> summary blob
    keep_originals,         \* SummarizerConfig.keep_originals
    ctl,                    \* the position of the caller of start / stop
    bgcalls,                \* number of start / stop / environment steps so far
    wfocus,                 \* the component the caller works on
    wlog,                   \* history: the last start / stop call and what the
                            \* workers did last
    \* storage (the sync_operations table of the SQLite backend)
    sync_operations,        \* rows in rowid order
    \* StorageAbstraction with a cache backend
    cache,                  \* backends.get('cache'): None or the cache's tables
    writes,                 \* history: the backend writes of the last call, in
                            \* the order they were made
    \* ReverseChronologicalFileHandler
    log_lines,              \* self._lines, newest first
    log_file,               \* the lines of the log file, top first
    log_now,                \* time.time(), in days
    log_emits,              \* history: number of emit calls so far
    \* di.Container
    services,               \* self._services: interface -> implementation
    factories,              \* self._factories: interface -> factory
    singletons,             \* self._singletons: interface -> None or instance
    created,                \* the objects created so far (their number)
    resolves,               \* history: per interface, what the resolve calls
                            \* since its last registration returned
    \* SummarizerAgent.check_context_size
    context_text,           \* the text of the last call (its length)
    context_ret,            \* what the last call returned
    checks,                 \* number of calls so far
    \* coroutines that call one SyncManager or one CommunalBrain concurrently
    callers                 \* caller -> its position and the task it awaits

cmVars == <<active_conversations, conversation_locks, listeners, objects, lockobjs,
            conversations, pc, call, lock, conv, loaded, data, disp, ret,
            clock, calls, workload, lockOrder, turnOf>>

stVars == <<memories, knowledge, devices, result, stcalls, stclock, focus, stored>>

lcVars == <<initialized, sync_task, schema, bpc, opened>>

wkVars == <<tasks, is_running, monitoring_task, running, manager_sync_task,
            conversations_dir, archive_dir, summaries_dir, keep_originals,
            ctl, bgcalls, wfocus, wlog>>

bgVars == <<lcVars, wkVars>>

syVars == <<sync_operations>>

caVars == <<cache, writes>>

lgVars == <<log_lines, log_file, log_now, log_emits>>

diVars == <<services, factories, singletons, created, resolves>>

ckVars == <<context_text, context_ret, checks>>

ccVars == <<callers>>

\* everything but the concurrent callers
otVars == <<syVars, caVars, lgVars, diVars, ckVars>>

xtVars == <<otVars, ccVars>>

vars == <<cmVars, stVars, bgVars, xtVars>>

\* ------------------------------------------------------------ data model
\* Optional values are sequences of length 0 (None) or 1.
NoneVal == <<>>
Some(x) == <<x>>

\* dataclass Conversation (defaults: end_time None, turns [], status active)
Conversation(session_id, chatbot_name, start_time) ==
    [session_id |-> session_id, chatbot_name |-> chatbot_name, device_id |-> DeviceId,
     start_time |-> start_time, end_time |-> NoneVal, turns |-> <<>>,
     status |-> "active"]

\* dataclass ConversationTurn; turn_id is a fresh uuid4
ConversationTurn(timestamp, user_message, tokens_used, turn_id) ==
    [timestamp |-> timestamp, user_message |-> user_message,
     tokens_used |-> tokens_used, turn_id |-> turn_id]

\* datetime.isoformat() and datetime.fromisoformat()
IsoFormat(t) == [iso |-> t]
FromIsoFormat(str) == str.iso

\* session_id.split('_')[0] if '_' in session_id else 'unknown'
ChatbotNameOf(session_id) ==
    CASE session_id = "nano_1" -> "nano"
      [] session_id = "mini_1" -> "mini"
      [] OTHER -> "unknown"


\* ------------------------------------------------- serialisation, storage
\* UniversalConversationManager._serialize_conversation: asdict() with the
\* datetimes turned into ISO strings; end_time stays None when it is not set.
SerializeConversation(c) ==
    [session_id |-> c.session_id, chatbot_name |-> c.chatbot_name,
     device_id |-> c.device_id, start_time |-> IsoFormat(c.start_time),
     end_time |-> IF c.end_time # NoneVal THEN Some(IsoFormat(c.end_time[1])) ELSE NoneVal,
     status |-> c.status,
     turns |-> [i \in DOMAIN c.turns |-> [c.turns[i] EXCEPT !.timestamp = IsoFormat(@)]]]

\* SQLiteBackend.store_conversation: INSERT OR REPLACE of the whole row,
\* keyed by session_id
SQLiteStoreConversation(tbl, session_id, d) ==
    [x \in DOMAIN tbl \cup {session_id} |->
        IF x = session_id
        THEN [session_id |-> session_id, chatbot_name |-> d.chatbot_name,
              device_id |-> d.device_id, start_time |-> d.start_time,
              end_time |-> d.end_time, status |-> d.status, turns |-> d.turns]
        ELSE tbl[x]]

\* SQLiteBackend.load_conversation: the row as a dict, or None
SQLiteLoadConversation(tbl, session_id) ==
    IF session_id \in DOMAIN tbl THEN Some(tbl[session_id]) ELSE NoneVal

\* StorageAbstraction.store_conversation / load_conversation: the primary backend
StorageStoreConversation(tbl, session_id, d) == SQLiteStoreConversation(tbl, session_id, d)
StorageLoadConversation(tbl, session_id) == SQLiteLoadConversation(tbl, session_id)

\* CommunalBrain.store_conversation / load_conversation. core/brain/brain.py
\* does not define them; they are taken from the specification (4.4), where
\* the brain passes the call through to its storage. On a brain without them
\* every call raises AttributeError inside the try blocks of _save_conversation
\* and _load_conversation, which is the behaviour of SaveFail and LoadFail.
BrainStoreConversation(tbl, session_id, d) == StorageStoreConversation(tbl, session_id, d)
BrainLoadConversation(tbl, session_id) == StorageLoadConversation(tbl, session_id)

\* UniversalConversationManager._load_conversation, from the dict on: the
\* Conversation built from the stored data
ConversationFromData(d) ==
    [session_id |-> d.session_id, chatbot_name |-> d.chatbot_name,
     device_id |-> d.device_id, start_time |-> FromIsoFormat(d.start_time),
     end_time |-> IF d.end_time # NoneVal THEN Some(FromIsoFormat(d.end_time[1])) ELSE NoneVal,
     turns |-> [i \in DOMAIN d.turns |-> [d.turns[i] EXCEPT !.timestamp = FromIsoFormat(@)]],
     status |-> d.status]

\* ------------------------------------------------------------ asyncio.Lock
\* holder = 0: unlocked. release() wakes the first waiter, and nobody else can
\* take the lock before that waiter runs (acquire() queues while there are
\* waiters), so the lock passes to the head of the queue.
NewLock == [holder |-> 0, waiters |-> <<>>]

ReleaseLock(lobjs, l) ==
    LET w == lobjs[l].waiters
    IN  [lobjs EXCEPT ![l] = IF w = <<>> THEN NewLock
                             ELSE [holder |-> Head(w), waiters |-> Tail(w)]]

\* dict.pop(key, None)
DictPop(d, k) == [x \in DOMAIN d \ {k} |-> d[x]]
DictSet(d, k, v) == [x \in DOMAIN d \cup {k} |-> IF x = k THEN v ELSE d[x]]

\* turns[-max_turns:] as Python evaluates it: a negative start counts from the
\* end and is clipped at 0, and -0 is 0
PySliceFrom(turns, start) ==
    LET n == Len(turns)
        from == IF start < 0 THEN (IF n + start < 0 THEN 0 ELSE n + start)
                ELSE (IF start > n THEN n ELSE start)
    IN  SubSeq(turns, from + 1, n)

\* list(conversation.turns[-max_turns:] if conversation.turns else [])
RecentTurns(turns, max_turns) ==
    IF turns # <<>> THEN PySliceFrom(turns, 0 - max_turns) ELSE <<>>

RECURSIVE SumTokens(_)
SumTokens(turns) ==
    IF turns = <<>> THEN 0 ELSE Head(turns).tokens_used + SumTokens(Tail(turns))

\* UniversalConversationManager._build_summary; now is datetime.now(), read
\* only for a conversation that has turns and no end_time
BuildSummary(session_id, c, now) ==
    [session_id |-> session_id, chatbot_name |-> c.chatbot_name,
     device_id |-> c.device_id, start_time |-> IsoFormat(c.start_time),
     end_time |-> IF c.end_time # NoneVal THEN Some(IsoFormat(c.end_time[1])) ELSE NoneVal,
     status |-> c.status, total_turns |-> Len(c.turns),
     total_tokens |-> SumTokens(c.turns),
     duration_seconds |->
        IF c.end_time # NoneVal THEN Some(c.end_time[1] - c.start_time)
        ELSE IF Len(c.turns) > 0 THEN Some(now - c.start_time) ELSE NoneVal]


\* ------------------------------------------------ the manager's code paths
\* The code between two suspension points is a function on the state below:
\* the manager's and the storage's state, and the locals of the running task.
\* waited: the call had to queue for the session lock
NoCall == [id |-> 0, op |-> "", session |-> "", max_turns |-> 0, waited |-> FALSE]
NoDisp == [event |-> "", snap |-> <<>>, idx |-> 0, log |-> <<>>]
NoRet == [status |-> "none", value |-> <<>>, of |-> <<>>]

Cur(t) ==
    [active |-> active_conversations, lmap |-> conversation_locks, lobjs |-> lockobjs,
     objs |-> objects, store |-> conversations, clk |-> clock,
     lockOrder |-> lockOrder, turnOf |-> turnOf,
     pc |-> pc[t], call |-> call[t], lock |-> lock[t], conv |-> conv[t],
     loaded |-> loaded[t], data |-> data[t], disp |-> disp[t], ret |-> ret[t]]

Commit(t, m) ==
    /\ active_conversations' = m.active
    /\ conversation_locks' = m.lmap
    /\ lockobjs' = m.lobjs
    /\ objects' = m.objs
    /\ conversations' = m.store
    /\ clock' = m.clk
    /\ lockOrder' = m.lockOrder
    /\ turnOf' = m.turnOf
    /\ pc' = [pc EXCEPT ![t] = m.pc]
    /\ call' = [call EXCEPT ![t] = m.call]
    /\ lock' = [lock EXCEPT ![t] = m.lock]
    /\ conv' = [conv EXCEPT ![t] = m.conv]
    /\ loaded' = [loaded EXCEPT ![t] = m.loaded]
    /\ data' = [data EXCEPT ![t] = m.data]
    /\ disp' = [disp EXCEPT ![t] = m.disp]
    /\ ret' = [ret EXCEPT ![t] = m.ret]

\* a _get_lock that makes a new lock on every call
GetLock_AlwaysNew(m, session_id) ==
    [m EXCEPT !.lobjs = Append(m.lobjs, NewLock),
              !.lmap = DictSet(m.lmap, session_id, Len(m.lobjs) + 1),
              !.lock = Len(m.lobjs) + 1]

\* _get_lock: the session's lock, created and entered in the map when absent
GetLock(m, session_id) ==
    IF session_id \in DOMAIN m.lmap
    THEN [m EXCEPT !.lock = m.lmap[session_id]]
    ELSE [m EXCEPT !.lobjs = Append(m.lobjs, NewLock),
                   !.lmap = DictSet(m.lmap, session_id, Len(m.lobjs) + 1),
                   !.lock = Len(m.lobjs) + 1]

\* the end of "async with lock"
Release(m) == [m EXCEPT !.lobjs = ReleaseLock(m.lobjs, m.lock)]

\* the call returns value to its caller
Return(m, value) ==
    [m EXCEPT !.pc = "idle", !.ret = [@ EXCEPT !.status = "returned", !.value = value]]

\* the call raises
Raise(m) == [m EXCEPT !.pc = "idle", !.ret = [@ EXCEPT !.status = "raised"]]

\* The value the operation returns once its event has been dispatched.
ResultAfterDispatch(m) ==
    CASE m.call.op = "start_conversation" -> Some(m.call.session)
      [] m.call.op = "add_turn" -> m.ret.value
      [] OTHER -> NoneVal

\* a dispatch without the "except Exception"
DispatchCatches_None(kind) == FALSE

\* _dispatch_event's "except Exception": the failure of a listener of this kind
\* is caught and logged
DispatchCatches(kind) == kind \in {"sync_raise", "async_raise"}

\* _dispatch_event's loop from listener i on, up to the first listener whose
\* coroutine has to be awaited or to a failure that is not caught. log: the
\* listeners called so far. idx > 0: suspended in "await result" of listener idx.
RECURSIVE RunListeners(_, _, _)
RunListeners(snap, i, log) ==
    IF i > Len(snap) THEN [idx |-> 0, log |-> log, raised |-> FALSE]
    ELSE IF snap[i] \in {"async_ok", "async_raise"}
         THEN [idx |-> i, log |-> Append(log, i), raised |-> FALSE]
    ELSE IF snap[i] = "sync_raise" /\ ~DispatchCatches(snap[i])
         THEN [idx |-> 0, log |-> Append(log, i), raised |-> TRUE]
    ELSE RunListeners(snap, i + 1, Append(log, i))

\* the dispatch loop went as far as r: suspended, failed or done
AfterListeners(m, r) ==
    LET m1 == [m EXCEPT !.disp = [@ EXCEPT !.idx = r.idx, !.log = r.log]]
    IN  IF r.idx > 0 THEN [m1 EXCEPT !.pc = "dispatch"]
        ELSE IF r.raised THEN Raise(m1)
        ELSE Return(m1, ResultAfterDispatch(m1))

\* _dispatch_event: a copy of the event's listener list, nothing to do when it
\* is empty, else each listener in turn
DispatchEvent(m, event_name, ls) ==
    LET snap == ls[event_name]
        m1 == [m EXCEPT !.disp = [event |-> event_name, snap |-> snap,
                                  idx |-> 0, log |-> <<>>]]
    IN  IF snap = <<>> THEN Return(m1, ResultAfterDispatch(m1))
        ELSE AfterListeners(m1, RunListeners(snap, 1, <<>>))

\* the awaited coroutine of listener idx has finished
DispatchResumed(m) ==
    LET d == m.disp
    IN  IF d.snap[d.idx] = "async_raise" /\ ~DispatchCatches(d.snap[d.idx])
        THEN Raise([m EXCEPT !.disp = [@ EXCEPT !.idx = 0]])
        ELSE AfterListeners(m, RunListeners(d.snap, d.idx + 1, d.log))

\* _save_conversation up to its database call: the data is serialised now
SaveCall(m) ==
    [m EXCEPT !.data = Some(SerializeConversation(m.objs[m.conv])), !.pc = "save_io"]

\* add_turn, lines 117-126: a turn with a fresh turn_id and the current time
AppendTurn(m) ==
    LET now == m.clk + 1
        turn == ConversationTurn(now, "u", 10, now)
    IN  SaveCall([m EXCEPT !.clk = now,
                           !.objs = [@ EXCEPT ![m.conv].turns = Append(@, turn)],
                           !.turnOf = DictSet(@, m.call.id, turn.turn_id),
                           !.ret = [@ EXCEPT !.value = Some(turn)]])

\* an end_conversation that sets end_time and leaves the status alone
MarkCompleted_StatusKept(m) ==
    LET now == m.clk + 1
    IN  SaveCall([m EXCEPT !.clk = now,
                           !.objs = [@ EXCEPT ![m.conv].end_time = Some(now)]])

\* end_conversation, lines 184-186
MarkCompleted(m) ==
    LET now == m.clk + 1
    IN  SaveCall([m EXCEPT !.clk = now,
                           !.objs = [@ EXCEPT ![m.conv].end_time = Some(now),
                                              ![m.conv].status = "completed"]])

\* what a reading operation returns for the conversation it found
ReadResult(m) ==
    LET c == m.objs[m.conv]
        now == m.clk + 1
        ticks == c.end_time = NoneVal /\ Len(c.turns) > 0
        summary == BuildSummary(m.call.session, c, now)
        m1 == IF m.call.op # "get_conversation_history" /\ ticks
              THEN [m EXCEPT !.clk = now] ELSE m
    IN  CASE m.call.op = "get_conversation_history" ->
                Return([m1 EXCEPT !.ret = [@ EXCEPT !.of = c.turns]],
                       RecentTurns(c.turns, m.call.max_turns))
          [] m.call.op = "get_conversation_summary" ->
                Return(m1, Some(summary))
          [] OTHER ->
                Return(m1, Some([snapshot |-> SerializeConversation(c),
                                 summary |-> summary]))

\* the operation goes on with the conversation m.conv, found in the map or loaded
WithConversation(m) ==
    CASE m.call.op = "add_turn" -> AppendTurn(m)
      [] m.call.op = "end_conversation" -> MarkCompleted(m)
      [] OTHER -> ReadResult(Release(m))

\* the locked section from its start to the first suspension point
LockedSection(m) ==
    LET s == m.call.session
    IN  IF m.call.op = "start_conversation"
        THEN SaveCall([m EXCEPT !.active = DictSet(@, s, m.conv)])
        ELSE IF s \in DOMAIN m.active
             THEN WithConversation([m EXCEPT !.conv = m.active[s]])
             ELSE [m EXCEPT !.pc = "load_io"]

\* the task holds the lock
EnterLocked(m) ==
    LockedSection([m EXCEPT !.lockOrder = IF m.call.op = "add_turn"
                                          THEN [@ EXCEPT ![m.call.session] =
                                                    Append(@, m.call.id)]
                                          ELSE @])

\* "async with lock": the lock is taken at once when it is free, else the task
\* queues for it
AcquireLock(m, t) ==
    IF m.lobjs[m.lock].holder = 0
    THEN EnterLocked([m EXCEPT !.lobjs = [@ EXCEPT ![m.lock].holder = t]])
    ELSE [m EXCEPT !.lobjs = [@ EXCEPT ![m.lock].waiters = Append(@, t)],
                   !.call = [@ EXCEPT !.waited = TRUE],
                   !.pc = "wait"]

\* start_conversation builds its Conversation before it asks for the lock
Prologue(m) ==
    IF m.call.op = "start_conversation"
    THEN [m EXCEPT !.clk = m.clk + 1,
                   !.objs = Append(@, Conversation(m.call.session,
                                        ChatbotNameOf(m.call.session), m.clk + 1)),
                   !.conv = Len(m.objs) + 1]
    ELSE m

\* the operation from its call to its first suspension point
CallOperation(m, t, c) ==
    AcquireLock(GetLock(Prologue([m EXCEPT !.call = c, !.conv = 0, !.loaded = NoneVal,
                                            !.data = NoneVal, !.disp = NoDisp,
                                            !.ret = NoRet,
                                            !.turnOf = IF c.op = "add_turn"
                                                       THEN DictSet(@, c.id, 0) ELSE @]),
                        c.session), t)

\* _load_conversation has returned: lines 105-115, 146-149, 162-165, 179-182
AfterLoad(m) ==
    LET s == m.call.session
        ref == Len(m.objs) + 1
    IN  IF m.loaded # NoneVal
        THEN WithConversation([m EXCEPT
                 !.objs = Append(@, ConversationFromData(m.loaded[1])),
                 !.conv = ref, !.active = DictSet(@, s, ref)])
        ELSE CASE m.call.op = "add_turn" ->
                    AppendTurn([m EXCEPT
                        !.clk = m.clk + 1,
                        !.objs = Append(@, Conversation(s, ChatbotNameOf(s), m.clk + 1)),
                        !.conv = ref, !.active = DictSet(@, s, ref)])
               [] m.call.op = "end_conversation" -> Return(Release(m), NoneVal)
               [] OTHER -> Return(Release(m), NoneVal)

\* _save_conversation has returned: the rest of the locked section, the
\* release of the lock and the dispatch of the operation's event
AfterSave(m, ls) ==
    LET s == m.call.session
    IN  CASE m.call.op = "start_conversation" ->
                DispatchEvent(Release(m), EVENT_CONVERSATION_STARTED, ls)
          [] m.call.op = "add_turn" ->
                DispatchEvent(Release(m), EVENT_TURN_APPENDED, ls)
          [] OTHER ->
                DispatchEvent(Release([m EXCEPT !.active = DictPop(@, s),
                                                !.lmap = DictPop(@, s)]),
                              EVENT_CONVERSATION_ENDED, ls)


\* ---------------------------------------------------------------- actions
\* A caller calls one of the manager's operations, which runs to its first
\* suspension point.
Call(t) ==
    /\ pc[t] = "idle"
    /\ calls < MaxCalls
    /\ \E op \in workload, s \in Sessions :
         \E mt \in IF op = "get_conversation_history" THEN 0..MaxTurnsArg ELSE {0} :
            Commit(t, CallOperation(Cur(t), t,
                     [id |-> calls + 1, op |-> op, session |-> s, max_turns |-> mt,
                      waited |-> FALSE]))
    /\ calls' = calls + 1
    /\ UNCHANGED <<listeners, workload, stVars, bgVars, xtVars>>

\* A task that queued for the lock has been given it and runs on.
AcquireAfterWait(t) ==
    /\ pc[t] = "wait"
    /\ lockobjs[lock[t]].holder = t
    /\ Commit(t, EnterLocked(Cur(t)))
    /\ UNCHANGED <<listeners, workload, calls, stVars, bgVars, xtVars>>

\* The database read of brain.load_conversation.
LoadIO(t) ==
    /\ pc[t] = "load_io"
    /\ loaded' = [loaded EXCEPT ![t] = BrainLoadConversation(conversations, call[t].session)]
    /\ pc' = [pc EXCEPT ![t] = "load_ret"]
    /\ UNCHANGED <<active_conversations, conversation_locks, listeners, objects, lockobjs,
                   conversations, call, lock, conv, data, disp, ret, clock, calls,
                   workload, lockOrder, turnOf, stVars, bgVars, xtVars>>

\* _load_conversation returns to the operation.
LoadReturn(t) ==
    /\ pc[t] = "load_ret"
    /\ Commit(t, AfterLoad(Cur(t)))
    /\ UNCHANGED <<listeners, workload, calls, stVars, bgVars, xtVars>>

\* The database write of brain.store_conversation.
SaveIO(t) ==
    /\ pc[t] = "save_io"
    /\ conversations' = BrainStoreConversation(conversations, call[t].session, data[t][1])
    /\ pc' = [pc EXCEPT ![t] = "save_ret"]
    /\ UNCHANGED <<active_conversations, conversation_locks, listeners, objects, lockobjs,
                   call, lock, conv, loaded, data, disp, ret, clock, calls,
                   workload, lockOrder, turnOf, stVars, bgVars, xtVars>>

\* _save_conversation returns to the operation.
SaveReturn(t) ==
    /\ pc[t] = "save_ret"
    /\ Commit(t, AfterSave(Cur(t), listeners))
    /\ UNCHANGED <<listeners, workload, calls, stVars, bgVars, xtVars>>

\* brain.load_conversation raises: _load_conversation logs it and returns None.
LoadFail(t) ==
    /\ pc[t] = "load_io"
    /\ loaded' = [loaded EXCEPT ![t] = NoneVal]
    /\ pc' = [pc EXCEPT ![t] = "load_ret"]
    /\ UNCHANGED <<active_conversations, conversation_locks, listeners, objects, lockobjs,
                   conversations, call, lock, conv, data, disp, ret, clock, calls,
                   workload, lockOrder, turnOf, stVars, bgVars, xtVars>>

\* brain.store_conversation raises: _save_conversation logs it and returns.
SaveFail(t) ==
    /\ pc[t] = "save_io"
    /\ pc' = [pc EXCEPT ![t] = "save_ret"]
    /\ UNCHANGED <<active_conversations, conversation_locks, listeners, objects, lockobjs,
                   conversations, call, lock, conv, loaded, data, disp, ret, clock,
                   calls, workload, lockOrder, turnOf, stVars, bgVars, xtVars>>

\* The coroutine of the listener that _dispatch_event awaits finishes.
DispatchResume(t) ==
    /\ pc[t] = "dispatch"
    /\ Commit(t, DispatchResumed(Cur(t)))
    /\ UNCHANGED <<listeners, workload, calls, stVars, bgVars, xtVars>>

RECURSIVE SumLen(_, _)
SumLen(f, S) ==
    IF S = {} THEN 0
    ELSE LET x == CHOOSE y \in S : TRUE IN Len(f[x]) + SumLen(f, S \ {x})

\* list.remove: the first occurrence goes
RECURSIVE ListRemove(_, _)
ListRemove(l, x) ==
    IF l = <<>> THEN <<>>
    ELSE IF Head(l) = x THEN Tail(l) ELSE <<Head(l)>> \o ListRemove(Tail(l), x)

\* register_listener
RegisterListener(event_name, callback) ==
    /\ calls < MaxCalls
    /\ SumLen(listeners, Events) < MaxListeners
    /\ listeners' = [listeners EXCEPT ![event_name] = Append(@, callback)]
    /\ calls' = calls + 1
    /\ UNCHANGED <<active_conversations, conversation_locks, objects, lockobjs,
                   conversations, pc, call, lock, conv, loaded, data, disp, ret,
                   clock, workload, lockOrder, turnOf, stVars, bgVars, xtVars>>

\* unregister_listener
UnregisterListener(event_name, callback) ==
    /\ calls < MaxCalls
    /\ \E i \in DOMAIN listeners[event_name] : listeners[event_name][i] = callback
    /\ listeners' = [listeners EXCEPT ![event_name] = ListRemove(@, callback)]
    /\ calls' = calls + 1
    /\ UNCHANGED <<active_conversations, conversation_locks, objects, lockobjs,
                   conversations, pc, call, lock, conv, loaded, data, disp, ret,
                   clock, workload, lockOrder, turnOf, stVars, bgVars, xtVars>>

\* ------------------------------------------- the memory / knowledge store
\* Embeddings are vectors of -1.0, 0.0 and 1.0.
Unit(n) == [i \in 1..n |-> IF i = 1 THEN 1 ELSE 0]
Ones(n) == [i \in 1..n |-> 1]
NegUnit(n) == [i \in 1..n |-> IF i = 1 THEN 0 - 1 ELSE 0]
Zero(n) == [i \in 1..n |-> 0]

\* what callers pass as an embedding: vectors of D elements and one that is longer
Embeddings ==
    {Unit(EmbeddingDim), Ones(EmbeddingDim), NegUnit(EmbeddingDim), Zero(EmbeddingDim),
     Unit(EmbeddingDim + 1)}
Queries == {Unit(EmbeddingDim), Ones(EmbeddingDim), Unit(EmbeddingDim + 1)}
Devices == {DeviceId, "dev_B"}
Sources == {"a.txt", "b.txt"}
Ids == {"id_1", "id_2", "id_3"}
ItemTimestamps == 1..MaxItemTimestamp
TopKs == 0..MaxTopK
MinSimilarities == {0, (Scale \div 2) + 1}
\* an optional filter: None, the empty string, or a value
FiltersOver(S) == {NoneVal, Some("")} \cup {Some(x) : x \in S}

\* struct.pack('f', x): the four bytes of a little-endian float32
FloatToBytes(x) ==
    CASE x = 0 -> <<0, 0, 0, 0>>
      [] x = 1 -> <<0, 0, 128, 63>>
      [] OTHER -> <<0, 0, 128, 191>>

\* struct.unpack('f', b)
BytesToFloat(b) ==
    CASE b = <<0, 0, 0, 0>> -> 0
      [] b = <<0, 0, 128, 63>> -> 1
      [] OTHER -> 0 - 1

\* SQLiteBackend._embedding_to_bytes
RECURSIVE EmbeddingToBytes(_)
EmbeddingToBytes(embedding) ==
    IF embedding = <<>> THEN <<>>
    ELSE FloatToBytes(Head(embedding)) \o EmbeddingToBytes(Tail(embedding))

\* SQLiteBackend._bytes_to_embedding: len(data) // 4 floats
BytesToEmbedding(bytes) ==
    [i \in 1..(Len(bytes) \div 4) |-> BytesToFloat(SubSeq(bytes, 4 * i - 3, 4 * i))]

RECURSIVE DotProduct(_, _)
DotProduct(a, b) ==
    IF a = <<>> \/ b = <<>> THEN 0
    ELSE Head(a) * Head(b) + DotProduct(Tail(a), Tail(b))

\* floor(Scale * sqrt(x)), for x up to bound * bound
ScaledSqrt(x, bound) ==
    CHOOSE r \in 0..(Scale * bound) :
        r * r <= x * Scale * Scale /\ (r + 1) * (r + 1) > x * Scale * Scale

\* vector_search.cosine_similarity for vectors of one length, in units of
\* 1 / Scale: 0.0 when a magnitude is zero, else (similarity + 1) / 2
CosineSimilarity(a, b) ==
    LET dot_product == DotProduct(a, b)
        sq_a == DotProduct(a, a)
        sq_b == DotProduct(b, b)
    IN  IF sq_a = 0 \/ sq_b = 0 THEN 0
        ELSE ((dot_product * Scale * Scale) \div ScaledSqrt(sq_a * sq_b, Len(a)) + Scale)
                 \div 2

\* cosine_similarity raises ValueError
DimensionsDiffer(a, b) == Len(a) # Len(b)

\* models.MemoryItem / models.KnowledgeItem (source: "" for a memory)
Item(id, embedding, device_id, source, timestamp) ==
    [id |-> id, embedding |-> embedding, device_id |-> device_id, source |-> source,
     timestamp |-> timestamp, relevance_score |-> 0]

\* the row that store_memory / store_knowledge writes for an item
RowOf(item) ==
    [id |-> item.id, embedding |-> EmbeddingToBytes(item.embedding),
     device_id |-> item.device_id, source |-> item.source,
     timestamp |-> IsoFormat(item.timestamp),
     relevance_score |-> item.relevance_score, created_at |-> item.timestamp]

\* a store that inserts without replacing
SQLiteStoreMemory_Insert(tbl, memory) == Append(tbl, RowOf(memory))

\* SQLiteBackend.store_memory: INSERT OR REPLACE, the row with this id goes and
\* the new row is added
SQLiteStoreMemory(tbl, memory) ==
    Append(SelectSeq(tbl, LAMBDA r : r.id # memory.id), RowOf(memory))

\* SQLiteBackend.store_knowledge
SQLiteStoreKnowledge(tbl, item) ==
    Append(SelectSeq(tbl, LAMBDA r : r.id # item.id), RowOf(item))

\* SQLiteBackend.delete_memory / delete_knowledge
SQLiteDelete(tbl, id) == SelectSeq(tbl, LAMBDA r : r.id # id)

\* SQLiteBackend.get_memory_count / get_knowledge_count: SELECT COUNT(*)
SQLiteCount(tbl) == Len(tbl)

\* a register_device that leaves the row of a registered device as it is
\* (INSERT OR IGNORE)
SQLiteRegisterDevice_KeepRow(tbl, device_id, last_seen) ==
    IF device_id \in DOMAIN tbl THEN tbl
    ELSE DictSet(tbl, device_id, [device_id |-> device_id, status |-> "online",
                                  last_seen |-> IsoFormat(last_seen),
                                  created_at |-> last_seen])

\* SQLiteBackend.register_device: INSERT OR REPLACE
SQLiteRegisterDevice(tbl, device_id, last_seen) ==
    DictSet(tbl, device_id, [device_id |-> device_id, status |-> "online",
                             last_seen |-> IsoFormat(last_seen),
                             created_at |-> last_seen])

\* seq[:n] for n >= 0
Take(seq, n) == SubSeq(seq, 1, IF n < Len(seq) THEN n ELSE Len(seq))

\* a stable sort, largest key first (list.sort(key=..., reverse=True), and
\* ORDER BY ... DESC with rows of equal key in rowid order)
RECURSIVE InsertDesc(_, _)
InsertDesc(sorted, x) ==
    IF sorted = <<>> THEN <<x>>
    ELSE IF Head(sorted).key >= x.key
         THEN <<Head(sorted)>> \o InsertDesc(Tail(sorted), x)
         ELSE <<x>> \o sorted

RECURSIVE SortKeyedDesc(_)
SortKeyedDesc(pairs) ==
    IF pairs = <<>> THEN <<>>
    ELSE InsertDesc(SortKeyedDesc(SubSeq(pairs, 1, Len(pairs) - 1)), pairs[Len(pairs)])

SortDesc(seq, field) ==
    LET sorted == SortKeyedDesc([i \in DOMAIN seq |-> [key |-> seq[i][field], val |-> seq[i]]])
    IN  [i \in DOMAIN sorted |-> sorted[i].val]

\* "if device_filter:" / "if source_filter:"
Truthy(filter) == filter # NoneVal /\ filter[1] # ""

\* the item built from a row and its similarity to the query
ItemOfRow(row, query_embedding) ==
    [id |-> row.id, embedding |-> BytesToEmbedding(row.embedding),
     device_id |-> row.device_id, source |-> row.source,
     timestamp |-> FromIsoFormat(row.timestamp),
     relevance_score |-> CosineSimilarity(query_embedding, BytesToEmbedding(row.embedding))]

\* the rows a retrieval reads: WHERE ... ORDER BY created_at DESC LIMIT top_k * 10
Candidates(tbl, top_k, filter, field) ==
    LET rows == IF Truthy(filter) THEN SelectSeq(tbl, LAMBDA r : r[field] = filter[1])
                ELSE tbl
    IN  Take(SortDesc(rows, "created_at"), top_k * 10)

\* the body of retrieve_memories / retrieve_knowledge after the query
Ranked(rows, query_embedding, top_k) ==
    IF \E i \in DOMAIN rows :
           DimensionsDiffer(query_embedding, BytesToEmbedding(rows[i].embedding))
    THEN [raised |-> TRUE, list |-> <<>>]
    ELSE [raised |-> FALSE,
          list |-> Take(SortDesc([i \in DOMAIN rows |-> ItemOfRow(rows[i], query_embedding)],
                                 "relevance_score"), top_k)]

\* SQLiteBackend.retrieve_memories
SQLiteRetrieveMemories(tbl, query_embedding, top_k, device_filter) ==
    Ranked(Candidates(tbl, top_k, device_filter, "device_id"),
           query_embedding, top_k)

\* SQLiteBackend.retrieve_knowledge
SQLiteRetrieveKnowledge(tbl, query_embedding, top_k, source_filter) ==
    Ranked(Candidates(tbl, top_k, source_filter, "source"),
           query_embedding, top_k)

\* StorageAbstraction: the primary backend is the SQLite backend and there is
\* no cache backend, so every call goes to the primary.
StorageStoreMemory(tbl, memory) == SQLiteStoreMemory(tbl, memory)
StorageStoreKnowledge(tbl, item) == SQLiteStoreKnowledge(tbl, item)
StorageRetrieveMemories(tbl, q, top_k, device_filter) ==
    SQLiteRetrieveMemories(tbl, q, top_k, device_filter)
StorageRetrieveKnowledge(tbl, q, top_k, source_filter) ==
    SQLiteRetrieveKnowledge(tbl, q, top_k, source_filter)

\* what a retrieval of the brain does with the list the storage returned
FilterAndTrim(r, top_k, min_similarity) ==
    IF r.raised THEN r
    ELSE [r EXCEPT !.list = Take(SelectSeq(r.list,
                                   LAMBDA x : x.relevance_score >= min_similarity), top_k)]

\* a retrieve_memories that returns all the storage gave it
BrainRetrieveMemories_Unfiltered(tbl, query_embedding, top_k, device_filter, min_similarity) ==
    StorageRetrieveMemories(tbl, query_embedding, top_k * 2, device_filter)

\* CommunalBrain.retrieve_memories
BrainRetrieveMemories(tbl, query_embedding, top_k, device_filter, min_similarity) ==
    FilterAndTrim(StorageRetrieveMemories(tbl, query_embedding, top_k * 2, device_filter),
                  top_k, min_similarity)

\* CommunalBrain.retrieve_knowledge
BrainRetrieveKnowledge(tbl, query_embedding, top_k, source_filter, min_similarity) ==
    FilterAndTrim(StorageRetrieveKnowledge(tbl, query_embedding, top_k * 2, source_filter),
                  top_k, min_similarity)

NoResult ==
    [op |-> "", id |-> "", query |-> <<>>, top_k |-> 0, filter |-> NoneVal,
     min_similarity |-> 0, item |-> NoneVal, raised |-> FALSE, list |-> <<>>,
     count |-> 0]

NoStored == [live |-> {}, used |-> {}, replaced |-> 0]

\* uuid.uuid4(): an id that was never used
FreshIds == Ids \ (stored.memories.used \cup stored.knowledge.used)
Uuid4 == CHOOSE id \in FreshIds : TRUE

\* the history of a table after a store under id
AfterStore(h, id) ==
    [live |-> h.live \cup {id}, used |-> h.used \cup {id},
     replaced |-> IF id \in h.live THEN h.replaced + 1 ELSE h.replaced]

StoreCall == stcalls < MaxStoreCalls /\ stcalls' = stcalls + 1

\* CommunalBrain.store_memory: a MemoryItem of this device under a new id is
\* stored and the device's heartbeat is updated
BrainStoreMemory(embedding) ==
    /\ StoreCall /\ focus = "memories" /\ FreshIds # {}
    /\ LET memory == Item(Uuid4, embedding, DeviceId, "", stclock + 1)
       IN  /\ memories' = StorageStoreMemory(memories, memory)
           /\ stored' = [stored EXCEPT !.memories = AfterStore(@, memory.id)]
           /\ result' = [NoResult EXCEPT !.op = "store_memory", !.id = memory.id,
                                         !.item = Some(memory)]
    /\ devices' = SQLiteRegisterDevice(devices, DeviceId, stclock + 2)
    /\ stclock' = stclock + 2
    /\ UNCHANGED <<knowledge, focus, cmVars, bgVars, xtVars>>

\* CommunalBrain.store_memory on a database whose statements can fail
\* (sqlite3.OperationalError: database is locked, disk I/O error): the write
\* of the memory and the register_device of the heartbeat are two calls,
\* each on a connection of its own, and no exception is caught
BrainStoreMemoryIO(embedding, write, heartbeat) ==
    /\ StoreCall /\ focus = "memories" /\ FreshIds # {}
    /\ LET memory == Item(Uuid4, embedding, DeviceId, "", stclock + 1)
       IN  IF write = "raise"
           THEN /\ result' = [NoResult EXCEPT !.op = "store_memory", !.raised = TRUE]
                /\ stored' = [stored EXCEPT !.memories.used = @ \cup {memory.id}]
                /\ UNCHANGED <<memories, devices>>
           ELSE /\ memories' = StorageStoreMemory(memories, memory)
                /\ stored' = [stored EXCEPT !.memories = AfterStore(@, memory.id)]
                /\ IF heartbeat = "raise"
                   THEN /\ result' = [NoResult EXCEPT !.op = "store_memory",
                                                      !.raised = TRUE]
                        /\ UNCHANGED devices
                   ELSE /\ result' = [NoResult EXCEPT !.op = "store_memory",
                                                      !.id = memory.id,
                                                      !.item = Some(memory)]
                        /\ devices' = SQLiteRegisterDevice(devices, DeviceId, stclock + 2)
    /\ stclock' = stclock + 2
    /\ UNCHANGED <<knowledge, focus, cmVars, bgVars, xtVars>>

\* CommunalBrain.store_knowledge
BrainStoreKnowledge(embedding, source) ==
    /\ StoreCall /\ focus = "knowledge" /\ FreshIds # {}
    /\ LET item == Item(Uuid4, embedding, DeviceId, source, stclock + 1)
       IN  /\ knowledge' = StorageStoreKnowledge(knowledge, item)
           /\ stored' = [stored EXCEPT !.knowledge = AfterStore(@, item.id)]
           /\ result' = [NoResult EXCEPT !.op = "store_knowledge", !.id = item.id,
                                         !.item = Some(item)]
    /\ devices' = SQLiteRegisterDevice(devices, DeviceId, stclock + 2)
    /\ stclock' = stclock + 2
    /\ UNCHANGED <<memories, focus, cmVars, bgVars, xtVars>>

\* StorageAbstraction.store_memory with an item of any device under any id
StoreMemory(id, embedding, device_id) ==
    /\ StoreCall /\ focus = "memories"
    /\ LET memory == Item(id, embedding, device_id, "", stclock + 1)
       IN  /\ memories' = StorageStoreMemory(memories, memory)
           /\ result' = [NoResult EXCEPT !.op = "storage.store_memory", !.id = id,
                                         !.item = Some(memory)]
    /\ stored' = [stored EXCEPT !.memories = AfterStore(@, id)]
    /\ stclock' = stclock + 1
    /\ UNCHANGED <<knowledge, devices, focus, cmVars, bgVars, xtVars>>

\* StorageAbstraction.store_memory with an item that carries the timestamp
\* its builder gave it (MemoryItem.timestamp is a field of the dataclass; an
\* item of another device comes with that device's time)
StoreMemoryAt(id, embedding, device_id, timestamp) ==
    /\ StoreCall /\ focus = "memories"
    /\ LET memory == Item(id, embedding, device_id, "", timestamp)
       IN  /\ memories' = StorageStoreMemory(memories, memory)
           /\ result' = [NoResult EXCEPT !.op = "storage.store_memory", !.id = id,
                                         !.item = Some(memory)]
    /\ stored' = [stored EXCEPT !.memories = AfterStore(@, id)]
    /\ UNCHANGED <<knowledge, devices, stclock, focus, cmVars, bgVars, xtVars>>

\* StorageAbstraction.store_knowledge with an item of any source under any id
StoreKnowledge(id, embedding, source) ==
    /\ StoreCall /\ focus = "knowledge"
    /\ LET item == Item(id, embedding, DeviceId, source, stclock + 1)
       IN  /\ knowledge' = StorageStoreKnowledge(knowledge, item)
           /\ result' = [NoResult EXCEPT !.op = "storage.store_knowledge", !.id = id,
                                         !.item = Some(item)]
    /\ stored' = [stored EXCEPT !.knowledge = AfterStore(@, id)]
    /\ stclock' = stclock + 1
    /\ UNCHANGED <<memories, devices, focus, cmVars, bgVars, xtVars>>

\* StorageAbstraction.delete_memory
DeleteMemory(id) ==
    /\ StoreCall /\ focus = "memories"
    /\ memories' = SQLiteDelete(memories, id)
    /\ stored' = [stored EXCEPT !.memories.live = @ \ {id}]
    /\ result' = [NoResult EXCEPT !.op = "delete_memory", !.id = id]
    /\ UNCHANGED <<knowledge, devices, stclock, focus, cmVars, bgVars, xtVars>>

\* StorageAbstraction.delete_knowledge
DeleteKnowledge(id) ==
    /\ StoreCall /\ focus = "knowledge"
    /\ knowledge' = SQLiteDelete(knowledge, id)
    /\ stored' = [stored EXCEPT !.knowledge.live = @ \ {id}]
    /\ result' = [NoResult EXCEPT !.op = "delete_knowledge", !.id = id]
    /\ UNCHANGED <<memories, devices, stclock, focus, cmVars, bgVars, xtVars>>

\* StorageAbstraction.get_memory_count / get_knowledge_count
GetCount ==
    /\ StoreCall
    /\ result' = IF focus = "memories"
                 THEN [NoResult EXCEPT !.op = "get_memory_count",
                                       !.count = SQLiteCount(memories)]
                 ELSE [NoResult EXCEPT !.op = "get_knowledge_count",
                                       !.count = SQLiteCount(knowledge)]
    /\ UNCHANGED <<memories, knowledge, devices, stclock, focus, stored, cmVars, bgVars, xtVars>>

\* CommunalBrain.retrieve_memories
RetrieveMemories(query_embedding, top_k, device_filter, min_similarity) ==
    /\ StoreCall /\ focus = "memories"
    /\ LET r == BrainRetrieveMemories(memories, query_embedding, top_k, device_filter,
                                      min_similarity)
       IN  result' = [NoResult EXCEPT !.op = "retrieve_memories",
                         !.query = query_embedding, !.top_k = top_k,
                         !.filter = device_filter, !.min_similarity = min_similarity,
                         !.raised = r.raised, !.list = r.list]
    /\ UNCHANGED <<memories, knowledge, devices, stclock, focus, stored, cmVars, bgVars, xtVars>>

\* CommunalBrain.retrieve_knowledge
RetrieveKnowledge(query_embedding, top_k, source_filter, min_similarity) ==
    /\ StoreCall /\ focus = "knowledge"
    /\ LET r == BrainRetrieveKnowledge(knowledge, query_embedding, top_k, source_filter,
                                       min_similarity)
       IN  result' = [NoResult EXCEPT !.op = "retrieve_knowledge",
                         !.query = query_embedding, !.top_k = top_k,
                         !.filter = source_filter, !.min_similarity = min_similarity,
                         !.raised = r.raised, !.list = r.list]
    /\ UNCHANGED <<memories, knowledge, devices, stclock, focus, stored, cmVars, bgVars, xtVars>>

\* ------------------------------------------------ the sync_operations table
\* the timestamps that callers give their SyncOperations
OpTimestamps == 1..MaxOpTimestamp

\* models.SyncOperation
SyncOperation(operation_id, device_id, timestamp, resolved) ==
    [operation_id |-> operation_id, device_id |-> device_id,
     timestamp |-> timestamp, resolved |-> resolved]

\* the row that store_sync_operation writes for an operation: created_at is
\* operation.timestamp.timestamp()
SyncRowOf(operation) ==
    [operation_id |-> operation.operation_id, device_id |-> operation.device_id,
     timestamp |-> IsoFormat(operation.timestamp),
     resolved |-> IF operation.resolved THEN 1 ELSE 0,
     created_at |-> operation.timestamp]

\* SQLiteBackend.store_sync_operation: INSERT OR REPLACE
SQLiteStoreSyncOperation(tbl, operation) ==
    Append(SelectSeq(tbl, LAMBDA r : r.operation_id # operation.operation_id),
           SyncRowOf(operation))

Reverse(seq) == [i \in DOMAIN seq |-> seq[Len(seq) + 1 - i]]

\* ORDER BY ... ASC, rows of equal key in rowid order
SortAsc(seq, field) == Reverse(SortDesc(Reverse(seq), field))

\* SQLiteBackend.get_pending_sync_operations:
\* WHERE device_id = ? AND resolved = 0 ORDER BY created_at ASC
SQLiteGetPendingSyncOperations(tbl, device_id) ==
    LET rows == SortAsc(SelectSeq(tbl, LAMBDA r : r.device_id = device_id /\ r.resolved = 0),
                        "created_at")
    IN  [i \in DOMAIN rows |->
            SyncOperation(rows[i].operation_id, rows[i].device_id,
                          FromIsoFormat(rows[i].timestamp), rows[i].resolved # 0)]

\* an UPDATE without its WHERE clause
SQLiteMarkSyncOperationResolved_All(tbl, operation_id) ==
    [i \in DOMAIN tbl |-> [tbl[i] EXCEPT !.resolved = 1]]

\* SQLiteBackend.mark_sync_operation_resolved:
\* UPDATE sync_operations SET resolved = 1 WHERE operation_id = ?
SQLiteMarkSyncOperationResolved(tbl, operation_id) ==
    [i \in DOMAIN tbl |-> IF tbl[i].operation_id = operation_id
                          THEN [tbl[i] EXCEPT !.resolved = 1]
                          ELSE tbl[i]]

\* StorageAbstraction.store_sync_operation
StoreSyncOperation(operation_id, device_id, timestamp, resolved) ==
    /\ StoreCall /\ focus = "sync_operations"
    /\ sync_operations' =
           SQLiteStoreSyncOperation(sync_operations,
               SyncOperation(operation_id, device_id, timestamp, resolved))
    /\ result' = [NoResult EXCEPT !.op = "store_sync_operation", !.id = operation_id]
    /\ UNCHANGED <<memories, knowledge, devices, stclock, focus, stored,
                   cmVars, bgVars, caVars, lgVars, diVars, ckVars, ccVars>>

\* StorageAbstraction.get_pending_sync_operations
GetPendingSyncOperations(device_id) ==
    /\ StoreCall /\ focus = "sync_operations"
    /\ result' = [NoResult EXCEPT
                      !.op = "get_pending_sync_operations",
                      !.filter = Some(device_id),
                      !.list = SQLiteGetPendingSyncOperations(sync_operations, device_id)]
    /\ UNCHANGED <<memories, knowledge, devices, stclock, focus, stored,
                   cmVars, bgVars, xtVars>>

\* StorageAbstraction.mark_sync_operation_resolved: nothing is raised and
\* nothing is returned, whatever the UPDATE matched (result.item keeps the row
\* it matched, as history: the code does not read the cursor)
MarkSyncOperationResolved(operation_id) ==
    /\ StoreCall /\ focus = "sync_operations"
    /\ sync_operations' = SQLiteMarkSyncOperationResolved(sync_operations, operation_id)
    /\ result' = [NoResult EXCEPT
                      !.op = "mark_sync_operation_resolved",
                      !.id = operation_id,
                      !.item = SelectSeq(sync_operations,
                                   LAMBDA r : r.operation_id = operation_id)]
    /\ UNCHANGED <<memories, knowledge, devices, stclock, focus, stored,
                   cmVars, bgVars, caVars, lgVars, diVars, ckVars, ccVars>>

\* ------------------------------------ StorageAbstraction with a cache backend
\* a cache backend that holds nothing yet
EmptyCache == Some([memories |-> <<>>, knowledge |-> <<>>])

\* what a write to the cache backend does: it stores the item or it raises
CacheOutcomes == {"stored", "raise"}

\* StorageAbstraction.store_memory when backends has a 'cache': the primary is
\* written, then the cache; what the cache raises goes to the caller
StoreMemoryWithCache(id, embedding, device_id, outcome) ==
    /\ StoreCall /\ focus = "memories" /\ cache # NoneVal
    /\ LET memory == Item(id, embedding, device_id, "", stclock + 1)
       IN  /\ memories' = SQLiteStoreMemory(memories, memory)
           /\ cache' = IF outcome = "stored"
                       THEN Some([cache[1] EXCEPT
                                     !.memories = SQLiteStoreMemory(@, memory)])
                       ELSE cache
           /\ result' = [NoResult EXCEPT !.op = "storage.store_memory", !.id = id,
                                         !.item = Some(memory),
                                         !.raised = (outcome = "raise")]
    /\ writes' = <<"primary", "cache">>
    /\ stored' = [stored EXCEPT !.memories = AfterStore(@, id)]
    /\ stclock' = stclock + 1
    /\ UNCHANGED <<knowledge, devices, focus, cmVars, bgVars, syVars, lgVars, diVars, ckVars, ccVars>>

\* StorageAbstraction.store_knowledge when backends has a 'cache'
StoreKnowledgeWithCache(id, embedding, source, outcome) ==
    /\ StoreCall /\ focus = "knowledge" /\ cache # NoneVal
    /\ LET item == Item(id, embedding, DeviceId, source, stclock + 1)
       IN  /\ knowledge' = SQLiteStoreKnowledge(knowledge, item)
           /\ cache' = IF outcome = "stored"
                       THEN Some([cache[1] EXCEPT
                                     !.knowledge = SQLiteStoreKnowledge(@, item)])
                       ELSE cache
           /\ result' = [NoResult EXCEPT !.op = "storage.store_knowledge", !.id = id,
                                         !.item = Some(item),
                                         !.raised = (outcome = "raise")]
    /\ writes' = <<"primary", "cache">>
    /\ stored' = [stored EXCEPT !.knowledge = AfterStore(@, id)]
    /\ stclock' = stclock + 1
    /\ UNCHANGED <<memories, devices, focus, cmVars, bgVars, syVars, lgVars, diVars, ckVars, ccVars>>

\* "for memory in result: await cache.store_memory(memory)"
RECURSIVE StoreEach(_, _)
StoreEach(tbl, items) ==
    IF items = <<>> THEN tbl
    ELSE StoreEach(SQLiteStoreMemory(tbl, Head(items)), Tail(items))

\* a read path that asks the primary first
CachedRead_PrimaryFirst(cache_tbl, primary_tbl, q, top_k, filter, field, reads, fills) ==
    LET r == Ranked(Candidates(primary_tbl, top_k, filter, field), q, top_k)
    IN  [raised |-> r.raised, list |-> r.list, cache |-> cache_tbl,
         writes |-> <<"primary_read">>]

\* StorageAbstraction.retrieve_memories / retrieve_knowledge when backends has
\* a 'cache' (a backend that ranks its own rows as the primary does): the
\* cache is asked first and its non-empty answer is returned; else the primary
\* is asked and each record of its answer is written to the cache. reads /
\* fills: what the cache's retrieve call and its store calls do. What a call
\* of the cache raises goes to the caller.
CachedRead(cache_tbl, primary_tbl, q, top_k, filter, field, reads, fills) ==
    LET cached == Ranked(Candidates(cache_tbl, top_k, filter, field), q, top_k)
        r == Ranked(Candidates(primary_tbl, top_k, filter, field), q, top_k)
    IN  IF reads = "raise" \/ cached.raised
        THEN [raised |-> TRUE, list |-> <<>>, cache |-> cache_tbl,
              writes |-> <<"cache_read">>]
        ELSE IF cached.list # <<>>
        THEN [raised |-> FALSE, list |-> cached.list, cache |-> cache_tbl,
              writes |-> <<"cache_read">>]
        ELSE IF r.raised
        THEN [raised |-> TRUE, list |-> <<>>, cache |-> cache_tbl,
              writes |-> <<"cache_read", "primary_read">>]
        ELSE IF r.list # <<>> /\ fills = "raise"
        THEN [raised |-> TRUE, list |-> <<>>, cache |-> cache_tbl,
              writes |-> <<"cache_read", "primary_read", "cache_write">>]
        ELSE [raised |-> FALSE, list |-> r.list,
              cache |-> StoreEach(cache_tbl, r.list),
              writes |-> <<"cache_read", "primary_read">>
                             \o [i \in DOMAIN r.list |-> "cache_write"]]

\* StorageAbstraction.retrieve_memories when backends has a 'cache'
RetrieveMemoriesWithCache(q, top_k, device_filter, reads, fills) ==
    /\ StoreCall /\ focus = "memories" /\ cache # NoneVal
    /\ LET r == CachedRead(cache[1].memories, memories, q, top_k, device_filter,
                           "device_id", reads, fills)
       IN  /\ result' = [NoResult EXCEPT !.op = "storage.retrieve_memories",
                             !.query = q, !.top_k = top_k, !.filter = device_filter,
                             !.raised = r.raised, !.list = r.list]
           /\ cache' = Some([cache[1] EXCEPT !.memories = r.cache])
           /\ writes' = r.writes
    /\ UNCHANGED <<memories, knowledge, devices, stclock, focus, stored,
                   cmVars, bgVars, syVars, lgVars, diVars, ckVars, ccVars>>

\* StorageAbstraction.retrieve_knowledge when backends has a 'cache'
RetrieveKnowledgeWithCache(q, top_k, source_filter, reads, fills) ==
    /\ StoreCall /\ focus = "knowledge" /\ cache # NoneVal
    /\ LET r == CachedRead(cache[1].knowledge, knowledge, q, top_k, source_filter,
                           "source", reads, fills)
       IN  /\ result' = [NoResult EXCEPT !.op = "storage.retrieve_knowledge",
                             !.query = q, !.top_k = top_k, !.filter = source_filter,
                             !.raised = r.raised, !.list = r.list]
           /\ cache' = Some([cache[1] EXCEPT !.knowledge = r.cache])
           /\ writes' = r.writes
    /\ UNCHANGED <<memories, knowledge, devices, stclock, focus, stored,
                   cmVars, bgVars, syVars, lgVars, diVars, ckVars, ccVars>>

\* ------------------------------------- ReverseChronologicalFileHandler
\* a line that the handler's formatter writes: "%(asctime)s ..." with
\* datefmt "%Y-%m-%d %H:%M:%S", asctime being the day of the emit
LogLine(now) == [asctime |-> now]

\* datetime.strptime(line[:19], "%Y-%m-%d %H:%M:%S").timestamp()
LogTime(line) == line.asctime

\* a clean-up that never runs
CleanupDue_Never(n) == FALSE

\* emit's "if len(self._lines) % 100 == 0"
CleanupDue(n) == n % CleanupEvery = 0

\* deque(maxlen=max_lines).appendleft: the last line falls out of a full deque
AppendLeft(lines, line) == Take(<<line>> \o lines, max_lines)

\* _cleanup_old_logs: the lines that are at most max_age_days old stay
CleanupOldLogs(lines, now) ==
    SelectSeq(lines, LAMBDA line : now - LogTime(line) <= max_age_days)

\* ReverseChronologicalFileHandler.__init__ on a file that does not exist
LogConstructed ==
    /\ log_lines = <<>>
    /\ log_file = <<>>
    /\ log_now = 0
    /\ log_emits = 0

\* ReverseChronologicalFileHandler.__init__ on the file of an earlier run (the
\* process starts again): the file's last max_lines lines, in the file's
\* order, then the clean-up; the file itself is left as it is
LogRestart ==
    /\ log_file # <<>>
    /\ log_lines' = CleanupOldLogs(
                        SubSeq(log_file,
                               IF Len(log_file) > max_lines
                               THEN Len(log_file) - max_lines + 1 ELSE 1,
                               Len(log_file)),
                        log_now)
    /\ UNCHANGED <<log_file, log_now, log_emits, cmVars, stVars, bgVars,
                   syVars, caVars, diVars, ckVars, ccVars>>

\* ReverseChronologicalFileHandler.emit
Emit ==
    /\ log_emits < MaxEmits
    /\ log_emits' = log_emits + 1
    /\ LET lines == AppendLeft(log_lines, LogLine(log_now))
           kept == IF CleanupDue(Len(lines))
                   THEN CleanupOldLogs(lines, log_now) ELSE lines
       IN  /\ log_lines' = kept
           /\ log_file' = kept
    /\ UNCHANGED <<log_now, cmVars, stVars, bgVars, syVars, caVars, diVars, ckVars, ccVars>>

\* a day passes
LogPassDay ==
    /\ log_now < MaxLogDays
    /\ log_now' = log_now + 1
    /\ UNCHANGED <<log_lines, log_file, log_emits, cmVars, stVars, bgVars,
                   syVars, caVars, diVars, ckVars, ccVars>>

\* ------------------------------------------------------------ di.Container
Interfaces == {"IBrain", "ILogger"}
Implementations == {"ClassA", "ClassB"}

\* what a factory does when it is called: it builds an object, or it hands
\* out the one object it holds
FactoryKinds == {"builds", "holds"}

NoResolved == [singleton |-> FALSE, got |-> {}]

\* Container.__init__
ContainerConstructed ==
    /\ services = <<>>
    /\ factories = <<>>
    /\ singletons = <<>>
    /\ created = 0
    /\ resolves = [i \in Interfaces |-> NoResolved]

\* Container.register with a factory: the factory is kept, singleton is not
\* looked at
RegisterFactory(interface, kind, singleton) ==
    /\ created < MaxObjects
    /\ factories' = DictSet(factories, interface,
                            [kind |-> kind,
                             obj |-> IF kind = "holds" THEN created + 1 ELSE 0])
    /\ created' = IF kind = "holds" THEN created + 1 ELSE created
    /\ resolves' = [resolves EXCEPT ![interface] = [singleton |-> singleton, got |-> {}]]
    /\ UNCHANGED <<services, singletons, cmVars, stVars, bgVars, syVars, caVars, lgVars, ckVars, ccVars>>

\* Container.register with an implementation class and no factory
RegisterImplementation(interface, implementation, singleton) ==
    /\ services' = DictSet(services, interface, implementation)
    /\ singletons' = IF singleton THEN DictSet(singletons, interface, NoneVal)
                     ELSE singletons
    /\ resolves' = [resolves EXCEPT ![interface] = [singleton |-> singleton, got |-> {}]]
    /\ UNCHANGED <<factories, created, cmVars, stVars, bgVars, syVars, caVars, lgVars, ckVars, ccVars>>

\* Container.register_instance with an object the caller has built
RegisterInstance(interface) ==
    /\ created < MaxObjects
    /\ created' = created + 1
    /\ singletons' = DictSet(singletons, interface, Some(created + 1))
    /\ resolves' = [resolves EXCEPT ![interface] = [singleton |-> TRUE, got |-> {}]]
    /\ UNCHANGED <<services, factories, cmVars, stVars, bgVars, syVars, caVars, lgVars, ckVars, ccVars>>

\* Container.resolve: [raised, instance, made: the objects built by the call,
\* singletons: the dict afterwards]. _create_instance calls the class, whose
\* constructor takes no parameters.
ResolveIn(interface) ==
    IF interface \in DOMAIN singletons /\ singletons[interface] # NoneVal
    THEN [raised |-> FALSE, instance |-> singletons[interface][1], made |-> 0,
          singletons |-> singletons]
    ELSE IF interface \in DOMAIN factories
    THEN LET f == factories[interface]
             instance == IF f.kind = "builds" THEN created + 1 ELSE f.obj
         IN  [raised |-> FALSE, instance |-> instance,
              made |-> IF f.kind = "builds" THEN 1 ELSE 0,
              singletons |-> IF interface \in DOMAIN singletons
                             THEN DictSet(singletons, interface, Some(instance))
                             ELSE singletons]
    ELSE IF interface \in DOMAIN services
    THEN [raised |-> FALSE, instance |-> created + 1, made |-> 1,
          singletons |-> IF interface \in DOMAIN singletons
                         THEN DictSet(singletons, interface, Some(created + 1))
                         ELSE singletons]
    ELSE [raised |-> TRUE, instance |-> 0, made |-> 0, singletons |-> singletons]

Resolve(interface) ==
    LET r == ResolveIn(interface)
    IN  /\ created + r.made <= MaxObjects
        /\ created' = created + r.made
        /\ singletons' = r.singletons
        /\ resolves' = IF r.raised THEN resolves
                       ELSE [resolves EXCEPT ![interface].got = @ \cup {r.instance}]
        /\ UNCHANGED <<services, factories, cmVars, stVars, bgVars, syVars, caVars, lgVars, ckVars, ccVars>>

\* ------------------------------------------------- asyncio tasks (workers)
\* asyncio.create_task(loop()): a task that has not run yet
NewTask(kind) ==
    [kind |-> kind, pc |-> "created", cancel |-> FALSE, todo |-> {},
     cur |-> NoneVal, data |-> NoneVal]

\* the tasks that have not finished
LiveTasks(kind) == {i \in DOMAIN tasks : tasks[i].kind = kind /\ tasks[i].pc # "done"}

\* Task.cancel() on an optional task: a task that has not finished is marked,
\* and gets CancelledError where it is suspended the next time it runs
CancelTask(ts, task) ==
    IF task # NoneVal /\ ts[task[1]].pc # "done"
    THEN [ts EXCEPT ![task[1]].cancel = TRUE]
    ELSE ts

\* `await task` would suspend the caller
IsPending(ts, task) == task # NoneVal /\ ts[task[1]].pc # "done"

\* ------------------------------------------------ CommunalBrain lifecycle
\* BrainConfig.enable_sync (its default)
enable_sync == TRUE

\* device_context.last_seen: set at construction and by every heartbeat
DeviceLastSeen ==
    IF DeviceId \in DOMAIN devices THEN devices[DeviceId].created_at ELSE 0

BgCall == bgcalls < MaxBgCalls /\ bgcalls' = bgcalls + 1

\* an initialize() that does not look at _initialized
InitializeGuard_None(is_initialized) == FALSE

\* CommunalBrain.initialize: `if self._initialized: return`
InitializeGuard(is_initialized) == is_initialized

\* CommunalBrain.initialize() up to `await self.storage.initialize()`
Initialize ==
    /\ BgCall /\ wfocus = "brain" /\ bpc = "idle"
    /\ bpc' = IF InitializeGuard(initialized) THEN "idle" ELSE "storage_initialize"
    /\ wlog' = [wlog EXCEPT !.call = IF InitializeGuard(initialized)
                                     THEN "initialize_returned_early" ELSE "initialize"]
    /\ UNCHANGED <<initialized, sync_task, schema, opened, tasks, is_running,
                   monitoring_task, running, manager_sync_task, conversations_dir,
                   archive_dir, summaries_dir, keep_originals, ctl, wfocus,
                   cmVars, stVars, xtVars>>

\* SQLiteStorage.initialize() (CREATE TABLE IF NOT EXISTS), up to
\* `await self.storage.register_device(...)`
InitializeStorage ==
    /\ bpc = "storage_initialize"
    /\ schema' = TRUE
    /\ opened' = [opened EXCEPT !.storage = @ + 1]
    /\ bpc' = "register_device"
    /\ UNCHANGED <<initialized, sync_task, bgcalls, wlog, tasks, is_running,
                   monitoring_task, running, manager_sync_task, conversations_dir,
                   archive_dir, summaries_dir, keep_originals, ctl, wfocus,
                   cmVars, stVars, xtVars>>

\* register_device(), then the rest of initialize(): the sync task is created
\* and _initialized is set
InitializeRegister ==
    /\ bpc = "register_device"
    /\ devices' = SQLiteRegisterDevice(devices, DeviceId, DeviceLastSeen)
    /\ opened' = [opened EXCEPT !.registered = @ + 1]
    /\ IF enable_sync
       THEN /\ tasks' = Append(tasks, NewTask("brain_sync"))
            /\ sync_task' = Some(Len(tasks) + 1)
       ELSE UNCHANGED <<tasks, sync_task>>
    /\ initialized' = TRUE
    /\ bpc' = "idle"
    /\ wlog' = [wlog EXCEPT !.call = "initialized"]
    /\ UNCHANGED <<schema, bgcalls, is_running, monitoring_task, running,
                   manager_sync_task, conversations_dir, archive_dir, summaries_dir,
                   keep_originals, ctl, wfocus, cmVars, memories, knowledge, result,
                   stcalls, stclock, focus, stored, xtVars>>

\* CommunalBrain.close(): the sync task is cancelled and awaited; then
\* storage.close() (which has no connection to close) and _initialized = False
Close ==
    /\ BgCall /\ wfocus = "brain" /\ bpc = "idle"
    /\ tasks' = CancelTask(tasks, sync_task)
    /\ IF IsPending(tasks, sync_task)
       THEN /\ bpc' = "close_await"
            /\ UNCHANGED initialized
            /\ wlog' = [wlog EXCEPT !.call = "close"]
       ELSE /\ bpc' = "idle"
            /\ initialized' = FALSE
            /\ wlog' = [wlog EXCEPT !.call = "closed"]
    /\ UNCHANGED <<sync_task, schema, opened, is_running, monitoring_task, running,
                   manager_sync_task, conversations_dir, archive_dir, summaries_dir,
                   keep_originals, ctl, wfocus, cmVars, stVars, xtVars>>

\* close() resumes when the sync task has finished
CloseResume ==
    /\ bpc = "close_await" /\ ~IsPending(tasks, sync_task)
    /\ bpc' = "idle"
    /\ initialized' = FALSE
    /\ wlog' = [wlog EXCEPT !.call = "closed"]
    /\ UNCHANGED <<sync_task, schema, opened, bgcalls, tasks, is_running,
                   monitoring_task, running, manager_sync_task, conversations_dir,
                   archive_dir, summaries_dir, keep_originals, ctl, wfocus,
                   cmVars, stVars, xtVars>>

\* CommunalBrain._sync_loop: `while True`, a sleep and an empty tick; it ends
\* on CancelledError only
BrainSyncLoop(i) ==
    /\ i \in LiveTasks("brain_sync")
    /\ tasks' = [tasks EXCEPT ![i].pc = IF tasks[i].cancel THEN "done" ELSE "sleeping"]
    /\ UNCHANGED <<initialized, sync_task, schema, bpc, opened, bgcalls, wlog,
                   is_running, monitoring_task, running, manager_sync_task,
                   conversations_dir, archive_dir, summaries_dir, keep_originals,
                   ctl, wfocus, cmVars, stVars, xtVars>>

\* a façade operation on a database file without tables: sqlite3 raises
\* OperationalError (no such table)
FacadeNoTable(op) ==
    /\ StoreCall /\ ~schema
    /\ result' = [NoResult EXCEPT !.op = op, !.raised = TRUE]
    /\ UNCHANGED <<memories, knowledge, devices, stclock, focus, stored, cmVars, bgVars, xtVars>>

\* CommunalBrain.get_memory_stats: the counts it returns
GetMemoryStats ==
    /\ StoreCall
    /\ result' = [NoResult EXCEPT !.op = "get_memory_stats",
                                  !.count = SQLiteCount(memories)]
    /\ UNCHANGED <<memories, knowledge, devices, stclock, focus, stored, cmVars, bgVars, xtVars>>

\* ------------------------------------------------------- SummarizerAgent
\* SummarizerConfig.max_file_size_bytes (50 * 1024)
max_file_size_bytes == 51200

\* _should_summarize_file: timedelta(days=7)
FileAgeLimitDays == 7

FileNames == {"s1_1.json", "s1_2.json", "s2_1.json"}

\* the names of the files of earlier runs
InitialFileNames == {"s1_1.json", "s2_1.json"}

\* the session a file name starts with ({session_id}_{time}.json)
SessionOf(name) == IF name = "s2_1.json" THEN "s2" ELSE "s1"

\* the messages of the conversation log written under a name
MessagesOf(name) == IF name = "s1_1.json" THEN <<"user", "assistant">> ELSE <<"user">>

FileSizes == {max_file_size_bytes, max_file_size_bytes + 1}

\* a file of conversations/: its parsed content (a file that is not well
\* formed does not parse, or lacks a key), st_size and the age of st_mtime
ConversationFile(name, size, age_days, wellformed) ==
    [session_id |-> SessionOf(name), messages |-> MessagesOf(name),
     wellformed |-> wellformed, size |-> size, age_days |-> age_days]

\* a _should_summarize_file that holds for every file
ShouldSummarizeFile_Always(file) == TRUE

\* SummarizerAgent._should_summarize_file
ShouldSummarizeFile(file) ==
    IF file.size > max_file_size_bytes THEN TRUE
    ELSE IF file.age_days > FileAgeLimitDays THEN TRUE
    ELSE FALSE

\* SummarizerAgent._generate_summary: the generator's answer, or the text it
\* returns when the generator call raised
GenerateSummary(outcome) ==
    IF outcome = "answer" THEN "summary" ELSE "Summary generation failed"

\* a summary blob that does not count the messages
WriteSummaryBlob_NoCount(summaries, conversation_data, summary, size) ==
    DictSet(summaries, conversation_data.session_id,
            [original_session_id |-> conversation_data.session_id,
             original_message_count |-> 0,
             summary |-> summary, file_size_bytes |-> size])

\* a _summarize_conversation_file that moves the original away first and
\* leaves the summary blob to a later step
WriteSummaryBlob_Later(summaries, conversation_data, summary, size) == summaries

\* _summarize_conversation_file: summary_data written to
\* summaries/<session_id>_summary.json
WriteSummaryBlob(summaries, conversation_data, summary, size) ==
    DictSet(summaries, conversation_data.session_id,
            [original_session_id |-> conversation_data.session_id,
             original_message_count |-> Len(conversation_data.messages),
             summary |-> summary, file_size_bytes |-> size])

\* a start that does not look at the running flag
StartGuard_None(flag) == FALSE

\* start_background_monitoring / SyncManager.start: `if running: return`
StartGuard(flag) == flag

\* where a scan goes on after a file: the next file, or the sleep of the
\* monitoring loop when the snapshot is used up
AfterFile(todo) == IF todo = {} THEN "sleeping" ELSE "scanning"

\* SummarizerAgent.start_background_monitoring
StartBackgroundMonitoring ==
    /\ BgCall /\ wfocus = "summarizer" /\ ctl = "idle"
    /\ IF StartGuard(is_running)
       THEN /\ wlog' = [wlog EXCEPT !.at = 1 - @, !.call = "start_returned_early"]
            /\ UNCHANGED <<is_running, tasks, monitoring_task>>
       ELSE /\ is_running' = TRUE
            /\ tasks' = Append(tasks, NewTask("summarizer"))
            /\ monitoring_task' = Some(Len(tasks) + 1)
            /\ wlog' = [wlog EXCEPT !.call = "started"]
    /\ UNCHANGED <<lcVars, running, manager_sync_task, conversations_dir, archive_dir,
                   summaries_dir, keep_originals, ctl, wfocus, cmVars, stVars, xtVars>>

\* SummarizerAgent.stop_background_monitoring up to `await self.monitoring_task`
StopBackgroundMonitoring ==
    /\ BgCall /\ wfocus = "summarizer" /\ ctl = "idle"
    /\ is_running' = FALSE
    /\ tasks' = CancelTask(tasks, monitoring_task)
    /\ ctl' = IF IsPending(tasks, monitoring_task) THEN "stop_await" ELSE "idle"
    /\ wlog' = [wlog EXCEPT !.at = 1 - @, !.call = IF IsPending(tasks, monitoring_task)
                                     THEN "stop" ELSE "stopped"]
    /\ UNCHANGED <<lcVars, monitoring_task, running, manager_sync_task,
                   conversations_dir, archive_dir, summaries_dir, keep_originals,
                   wfocus, cmVars, stVars, xtVars>>

\* stop_background_monitoring / SyncManager.stop resume when the task has
\* finished; SyncManager.stop then sets _sync_task = None
StopResume ==
    /\ ctl = "stop_await"
    /\ ~IsPending(tasks, IF wfocus = "summarizer" THEN monitoring_task
                         ELSE manager_sync_task)
    /\ ctl' = "idle"
    /\ manager_sync_task' = IF wfocus = "sync" THEN NoneVal ELSE manager_sync_task
    /\ wlog' = [wlog EXCEPT !.call = "stopped"]
    /\ UNCHANGED <<lcVars, tasks, is_running, monitoring_task, running,
                   conversations_dir, archive_dir, summaries_dir, keep_originals,
                   bgcalls, wfocus, cmVars, stVars, xtVars>>

\* SummarizerAgent._monitoring_loop where it starts or wakes from a sleep:
\* CancelledError ends the task; otherwise `while self.is_running`, and
\* _check_and_summarize_files takes its snapshot of conversations/*.json
MonitoringLoop(i) ==
    /\ i \in LiveTasks("summarizer")
    /\ tasks[i].pc \in {"created", "sleeping", "error_sleep"}
    /\ LET t == tasks[i]
           todo == DOMAIN conversations_dir
       IN  tasks' = [tasks EXCEPT ![i] =
                IF t.cancel \/ ~is_running THEN [t EXCEPT !.pc = "done"]
                ELSE [t EXCEPT !.pc = AfterFile(todo), !.todo = todo]]
    /\ wlog' = [wlog EXCEPT !.did = IF tasks[i].cancel \/ ~is_running
                                    THEN "exited" ELSE "scan", !.file = ""]
    /\ UNCHANGED <<lcVars, is_running, monitoring_task, running, manager_sync_task,
                   conversations_dir, archive_dir, summaries_dir, keep_originals,
                   ctl, bgcalls, wfocus, cmVars, stVars, xtVars>>

\* a _monitoring_loop that an error of a scan ends
AfterScanError_Exit == "done"

\* _monitoring_loop: `except Exception`: the error is logged and the worker
\* sleeps 60 s
AfterScanError == "error_sleep"

\* _check_and_summarize_files raises before its loop (the directory cannot be
\* listed): _monitoring_loop logs and sleeps 60 s
ScanFails(i) ==
    /\ BgCall
    /\ i \in LiveTasks("summarizer")
    /\ tasks[i].pc \in {"created", "sleeping", "error_sleep"}
    /\ ~tasks[i].cancel /\ is_running
    /\ tasks' = [tasks EXCEPT ![i].pc = AfterScanError]
    /\ wlog' = [wlog EXCEPT !.did = "scan_error", !.file = ""]
    /\ UNCHANGED <<lcVars, is_running, monitoring_task, running, manager_sync_task,
                   conversations_dir, archive_dir, summaries_dir, keep_originals,
                   ctl, wfocus, cmVars, stVars, xtVars>>

\* one round of the loop of _check_and_summarize_files, up to the generator
\* call: a file that is gone (stat raises) or does not parse is logged, a file
\* that meets no trigger is passed over
ExamineFile(i, name) ==
    /\ i \in LiveTasks("summarizer")
    /\ tasks[i].pc = "scanning" /\ name \in tasks[i].todo
    /\ LET t == tasks[i]
           todo == t.todo \ {name}
           next == [t EXCEPT !.todo = todo, !.pc = AfterFile(todo)]
       IN  IF name \notin DOMAIN conversations_dir
           THEN /\ tasks' = [tasks EXCEPT ![i] = next]
                /\ wlog' = [wlog EXCEPT !.did = "file_error", !.file = name]
           ELSE IF ~ShouldSummarizeFile(conversations_dir[name])
           THEN /\ tasks' = [tasks EXCEPT ![i] = next]
                /\ wlog' = [wlog EXCEPT !.did = "passed_over", !.file = name]
           ELSE IF ~conversations_dir[name].wellformed
           THEN /\ tasks' = [tasks EXCEPT ![i] = next]
                /\ wlog' = [wlog EXCEPT !.did = "file_error", !.file = name]
           ELSE /\ tasks' = [tasks EXCEPT ![i] =
                                [t EXCEPT !.todo = todo, !.pc = "generating",
                                          !.cur = Some(name),
                                          !.data = Some(conversations_dir[name])]]
                /\ wlog' = [wlog EXCEPT !.did = "generating", !.file = name]
    /\ UNCHANGED <<lcVars, is_running, monitoring_task, running, manager_sync_task,
                   conversations_dir, archive_dir, summaries_dir, keep_originals,
                   ctl, bgcalls, wfocus, cmVars, stVars, xtVars>>

\* the generator call of _generate_summary returns or raises, and
\* _summarize_conversation_file goes on: the summary blob is written, then the
\* original is renamed into the archive or unlinked.  A cancelled task gets
\* CancelledError at the await instead and ends.
GeneratorReturns(i, outcome) ==
    /\ i \in LiveTasks("summarizer")
    /\ tasks[i].pc = "generating"
    /\ LET t == tasks[i]
           name == t.cur[1]
           conversation_data == t.data[1]
       IN  IF t.cancel
           THEN /\ tasks' = [tasks EXCEPT ![i] = [t EXCEPT !.pc = "done"]]
                /\ wlog' = [wlog EXCEPT !.did = "exited", !.file = name]
                /\ UNCHANGED <<conversations_dir, archive_dir, summaries_dir>>
           ELSE /\ tasks' = [tasks EXCEPT ![i] =
                                [t EXCEPT !.pc = AfterFile(t.todo), !.cur = NoneVal,
                                          !.data = NoneVal]]
                /\ wlog' = [wlog EXCEPT !.did = IF outcome = "answer" THEN "summarized"
                                                ELSE "generator_failed",
                                        !.file = name]
                /\ IF name \in DOMAIN conversations_dir
                   THEN /\ summaries_dir' =
                              WriteSummaryBlob(summaries_dir, conversation_data,
                                               GenerateSummary(outcome),
                                               conversations_dir[name].size)
                        /\ conversations_dir' = DictPop(conversations_dir, name)
                        /\ archive_dir' = IF keep_originals
                                          THEN DictSet(archive_dir, name,
                                                       conversations_dir[name])
                                          ELSE archive_dir
                   ELSE UNCHANGED <<conversations_dir, archive_dir, summaries_dir>>
    /\ UNCHANGED <<lcVars, is_running, monitoring_task, running, manager_sync_task,
                   keep_originals, ctl, bgcalls, wfocus, cmVars, stVars, xtVars>>

\* ConversationStorage.save_conversation_log: a new, well-formed file in
\* conversations/
AddFile(name, size) ==
    /\ BgCall /\ wfocus = "summarizer"
    /\ name \notin DOMAIN conversations_dir \cup DOMAIN archive_dir
    /\ conversations_dir' =
           DictSet(conversations_dir, name, ConversationFile(name, size, 0, TRUE))
    /\ UNCHANGED <<lcVars, tasks, is_running, monitoring_task, running,
                   manager_sync_task, archive_dir, summaries_dir, keep_originals,
                   ctl, wfocus, wlog, cmVars, stVars, xtVars>>

\* days pass: every file of conversations/ reaches the age limit, then
\* exceeds it
PassTime ==
    /\ wfocus = "summarizer"
    /\ \E name \in DOMAIN conversations_dir :
           conversations_dir[name].age_days <= FileAgeLimitDays
    /\ conversations_dir' =
           [name \in DOMAIN conversations_dir |->
               [conversations_dir[name] EXCEPT !.age_days =
                    IF @ < FileAgeLimitDays THEN FileAgeLimitDays
                    ELSE FileAgeLimitDays + 1]]
    /\ UNCHANGED <<lcVars, tasks, is_running, monitoring_task, running,
                   manager_sync_task, archive_dir, summaries_dir, keep_originals,
                   ctl, bgcalls, wfocus, wlog, cmVars, stVars, xtVars>>

\* ------------------------------------------------------------ SyncManager
\* SyncManager.start
Start ==
    /\ BgCall /\ wfocus = "sync" /\ ctl = "idle"
    /\ IF StartGuard(running)
       THEN /\ wlog' = [wlog EXCEPT !.at = 1 - @, !.call = "start_returned_early"]
            /\ UNCHANGED <<running, tasks, manager_sync_task>>
       ELSE /\ running' = TRUE
            /\ tasks' = Append(tasks, NewTask("sync"))
            /\ manager_sync_task' = Some(Len(tasks) + 1)
            /\ wlog' = [wlog EXCEPT !.call = "started"]
    /\ UNCHANGED <<lcVars, is_running, monitoring_task, conversations_dir, archive_dir,
                   summaries_dir, keep_originals, ctl, wfocus, cmVars, stVars, xtVars>>

\* SyncManager.stop up to `await self._sync_task`
Stop ==
    /\ BgCall /\ wfocus = "sync" /\ ctl = "idle"
    /\ running' = FALSE
    /\ tasks' = CancelTask(tasks, manager_sync_task)
    /\ ctl' = IF IsPending(tasks, manager_sync_task) THEN "stop_await" ELSE "idle"
    /\ manager_sync_task' = IF IsPending(tasks, manager_sync_task)
                            THEN manager_sync_task ELSE NoneVal
    /\ wlog' = [wlog EXCEPT !.at = 1 - @, !.call = IF IsPending(tasks, manager_sync_task)
                                     THEN "stop" ELSE "stopped"]
    /\ UNCHANGED <<lcVars, is_running, monitoring_task, conversations_dir, archive_dir,
                   summaries_dir, keep_originals, wfocus, cmVars, stVars, xtVars>>

\* a _sync_loop that lets the exception of a tick end the task
AfterSyncError_Exit == "done"

\* SyncManager._sync_loop: `except Exception`: the error is printed and the
\* worker sleeps one interval
AfterSyncError == "error_sleep"

\* SyncManager._sync_loop where it starts or wakes from a sleep.  Started:
\* `while self._running`, then the sleep.  Woken from the sleep of a tick:
\* _perform_sync() returns or raises.  Woken from the sleep after an error:
\* the next round.  CancelledError ends the task.
SyncLoop(i, outcome) ==
    /\ i \in LiveTasks("sync")
    /\ LET t == tasks[i]
           round == IF running THEN "sleeping" ELSE "done"
       IN  IF t.cancel
           THEN /\ tasks' = [tasks EXCEPT ![i].pc = "done"]
                /\ wlog' = [wlog EXCEPT !.did = "exited"]
           ELSE IF t.pc = "created"
           THEN /\ tasks' = [tasks EXCEPT ![i].pc = round]
                /\ wlog' = [wlog EXCEPT !.did = "sleep"]
           ELSE IF t.pc = "error_sleep"
           THEN /\ tasks' = [tasks EXCEPT ![i].pc = round]
                /\ wlog' = [wlog EXCEPT !.did = "slept_after_error"]
           ELSE IF outcome = "return"
           THEN /\ tasks' = [tasks EXCEPT ![i].pc = round]
                /\ wlog' = [wlog EXCEPT !.did = "tick"]
           ELSE /\ tasks' = [tasks EXCEPT ![i].pc = AfterSyncError]
                /\ wlog' = [wlog EXCEPT !.did = "sync_error"]
    /\ UNCHANGED <<lcVars, is_running, monitoring_task, running, manager_sync_task,
                   conversations_dir, archive_dir, summaries_dir, keep_originals,
                   ctl, bgcalls, wfocus, cmVars, stVars, xtVars>>

\* the workers when nobody has started them
WorkersIdle ==
    /\ tasks = <<>>
    /\ is_running = FALSE
    /\ monitoring_task = NoneVal
    /\ running = FALSE
    /\ manager_sync_task = NoneVal
    /\ ctl = "idle"
    /\ bgcalls = 0
    /\ wlog = [call |-> "", at |-> 0, did |-> "", file |-> ""]

\* a CommunalBrain after construction
BrainConstructed ==
    /\ initialized = FALSE
    /\ sync_task = NoneVal
    /\ bpc = "idle"
    /\ opened = [storage |-> 0, registered |-> 0]

\* an empty sync_operations table, no cache backend (StorageAbstraction's
\* constructor installs none)
\* ---- SummarizerAgent.check_context_size ----

NothingChecked ==
    /\ context_text = 0
    /\ context_ret = <<>>
    /\ checks = 0

\* "1 token is about 4 characters", without rounding down
EstimatedTokens_Exact(len) == (len + 3) \div 4

\* estimated_tokens = len(context_text) // 4
EstimatedTokens(len) == len \div 4

\* the pair check_context_size returns for a text of len characters; the
\* generator answers the summary prompt or raises
CheckContextSizeOf(len, generator) ==
    IF EstimatedTokens(len) > max_context_tokens
    THEN IF generator = "answer"
         THEN <<TRUE, Some("summary")>>
         ELSE <<TRUE, Some("Context too long")>>
    ELSE <<FALSE, NoneVal>>

CheckContextSize(len, generator) ==
    /\ checks < MaxChecks
    /\ context_text' = len
    /\ context_ret' = CheckContextSizeOf(len, generator)
    /\ checks' = checks + 1
    /\ UNCHANGED <<cmVars, stVars, bgVars, syVars, caVars, lgVars, diVars, ccVars>>

\* ---- concurrent callers of SyncManager.start / stop ----

Callers == 1..NumCallers

IdleCaller == [pc |-> "idle", awaited |-> NoneVal]

CallersIdle == callers = [c \in Callers |-> IdleCaller]

\* SyncManager.start, called by c while other callers may be suspended in
\* stop(): start has no suspension point
StartBy(c) ==
    /\ BgCall /\ wfocus = "sync" /\ callers[c].pc = "idle"
    /\ IF StartGuard(running)
       THEN /\ wlog' = [wlog EXCEPT !.at = 1 - @, !.call = "start_returned_early"]
            /\ UNCHANGED <<running, tasks, manager_sync_task>>
       ELSE /\ running' = TRUE
            /\ tasks' = Append(tasks, NewTask("sync"))
            /\ manager_sync_task' = Some(Len(tasks) + 1)
            /\ wlog' = [wlog EXCEPT !.call = "started"]
    /\ UNCHANGED <<lcVars, is_running, monitoring_task, conversations_dir, archive_dir,
                   summaries_dir, keep_originals, ctl, wfocus, cmVars, stVars,
                   otVars, callers>>

\* SyncManager.stop, called by c, up to `await self._sync_task`: the task
\* object that is awaited is the one _sync_task holds now
StopBy(c) ==
    /\ BgCall /\ wfocus = "sync" /\ callers[c].pc = "idle"
    /\ running' = FALSE
    /\ tasks' = CancelTask(tasks, manager_sync_task)
    /\ IF IsPending(tasks, manager_sync_task)
       THEN /\ callers' = [callers EXCEPT ![c] = [pc |-> "stop_await",
                                                  awaited |-> manager_sync_task]]
            /\ UNCHANGED manager_sync_task
            /\ wlog' = [wlog EXCEPT !.at = 1 - @, !.call = "stop"]
       ELSE /\ manager_sync_task' = NoneVal
            /\ UNCHANGED callers
            /\ wlog' = [wlog EXCEPT !.at = 1 - @, !.call = "stopped"]
    /\ UNCHANGED <<lcVars, is_running, monitoring_task, conversations_dir, archive_dir,
                   summaries_dir, keep_originals, ctl, wfocus, cmVars, stVars, otVars>>

\* stop() of c resumes when the task it awaits has finished:
\* self._sync_task = None
StopResumeBy(c) ==
    /\ callers[c].pc = "stop_await"
    /\ ~IsPending(tasks, callers[c].awaited)
    /\ manager_sync_task' = NoneVal
    /\ callers' = [callers EXCEPT ![c] = IdleCaller]
    /\ wlog' = [wlog EXCEPT !.call = "stopped"]
    /\ UNCHANGED <<lcVars, tasks, is_running, monitoring_task, running,
                   conversations_dir, archive_dir, summaries_dir, keep_originals,
                   ctl, bgcalls, wfocus, cmVars, stVars, otVars>>

\* ---- concurrent callers of CommunalBrain.initialize / close ----

\* initialize() of c up to `await self.storage.initialize()`
InitializeBy(c) ==
    /\ BgCall /\ wfocus = "brain" /\ callers[c].pc = "idle"
    /\ callers' = [callers EXCEPT ![c].pc = IF InitializeGuard(initialized) THEN "idle"
                                            ELSE "storage_initialize"]
    /\ wlog' = [wlog EXCEPT !.at = 1 - @,
                            !.call = IF InitializeGuard(initialized)
                                     THEN "initialize_returned_early" ELSE "initialize"]
    /\ UNCHANGED <<lcVars, tasks, is_running, monitoring_task, running,
                   manager_sync_task, conversations_dir, archive_dir, summaries_dir,
                   keep_originals, ctl, wfocus, cmVars, stVars, otVars>>

\* storage.initialize() of c's call, up to
\* `await self.storage.register_device(...)`
InitializeStorageBy(c) ==
    /\ callers[c].pc = "storage_initialize"
    /\ schema' = TRUE
    /\ opened' = [opened EXCEPT !.storage = @ + 1]
    /\ callers' = [callers EXCEPT ![c].pc = "register_device"]
    /\ UNCHANGED <<initialized, sync_task, bpc, wkVars, cmVars, stVars, otVars>>

\* register_device() of c's call, then the rest of initialize()
InitializeRegisterBy(c) ==
    /\ callers[c].pc = "register_device"
    /\ devices' = SQLiteRegisterDevice(devices, DeviceId, DeviceLastSeen)
    /\ opened' = [opened EXCEPT !.registered = @ + 1]
    /\ IF enable_sync
       THEN /\ tasks' = Append(tasks, NewTask("brain_sync"))
            /\ sync_task' = Some(Len(tasks) + 1)
       ELSE UNCHANGED <<tasks, sync_task>>
    /\ initialized' = TRUE
    /\ callers' = [callers EXCEPT ![c].pc = "idle"]
    /\ wlog' = [wlog EXCEPT !.call = "initialized"]
    /\ UNCHANGED <<schema, bpc, bgcalls, is_running, monitoring_task, running,
                   manager_sync_task, conversations_dir, archive_dir, summaries_dir,
                   keep_originals, ctl, wfocus, cmVars, memories, knowledge, result,
                   stcalls, stclock, focus, stored, otVars>>

\* close() of c: the task _sync_task holds is cancelled and awaited; then
\* storage.close() and _initialized = False
CloseBy(c) ==
    /\ BgCall /\ wfocus = "brain" /\ callers[c].pc = "idle"
    /\ tasks' = CancelTask(tasks, sync_task)
    /\ IF IsPending(tasks, sync_task)
       THEN /\ callers' = [callers EXCEPT ![c] = [pc |-> "close_await",
                                                  awaited |-> sync_task]]
            /\ UNCHANGED initialized
            /\ wlog' = [wlog EXCEPT !.at = 1 - @, !.call = "close"]
       ELSE /\ UNCHANGED callers
            /\ initialized' = FALSE
            /\ wlog' = [wlog EXCEPT !.at = 1 - @, !.call = "closed"]
    /\ UNCHANGED <<sync_task, schema, bpc, opened, is_running, monitoring_task,
                   running, manager_sync_task, conversations_dir, archive_dir,
                   summaries_dir, keep_originals, ctl, wfocus, cmVars, stVars, otVars>>

\* close() of c resumes when the task it awaits has finished
CloseResumeBy(c) ==
    /\ callers[c].pc = "close_await"
    /\ ~IsPending(tasks, callers[c].awaited)
    /\ callers' = [callers EXCEPT ![c] = IdleCaller]
    /\ initialized' = FALSE
    /\ wlog' = [wlog EXCEPT !.call = "closed"]
    /\ UNCHANGED <<sync_task, schema, bpc, opened, bgcalls, tasks, is_running,
                   monitoring_task, running, manager_sync_task, conversations_dir,
                   archive_dir, summaries_dir, keep_originals, ctl, wfocus,
                   cmVars, stVars, otVars>>

ExtrasIdle ==
    /\ sync_operations = <<>>
    /\ cache = NoneVal
    /\ writes = <<>>
    /\ LogConstructed
    /\ ContainerConstructed
    /\ NothingChecked
    /\ CallersIdle

\* the brain's lifecycle and the workers when nobody uses them
BackgroundIdle ==
    /\ ExtrasIdle
    /\ BrainConstructed
    /\ schema = TRUE
    /\ WorkersIdle
    /\ conversations_dir = <<>>
    /\ archive_dir = <<>>
    /\ summaries_dir = <<>>
    /\ keep_originals = TRUE
    /\ wfocus = "none"

\* ---------------------------------------------------------- specifications
InitManager ==
    /\ active_conversations = <<>>
    /\ conversation_locks = <<>>
    /\ listeners = [e \in Events |-> <<>>]
    /\ objects = <<>>
    /\ lockobjs = <<>>
    /\ conversations = <<>>
    /\ pc = [t \in Tasks |-> "idle"]
    /\ call = [t \in Tasks |-> NoCall]
    /\ lock = [t \in Tasks |-> 0]
    /\ conv = [t \in Tasks |-> 0]
    /\ loaded = [t \in Tasks |-> NoneVal]
    /\ data = [t \in Tasks |-> NoneVal]
    /\ disp = [t \in Tasks |-> NoDisp]
    /\ ret = [t \in Tasks |-> NoRet]
    /\ clock = 0
    /\ calls = 0
    /\ lockOrder = [s \in Sessions |-> <<>>]
    /\ turnOf = <<>>

\* The store after CommunalBrain.initialize(): empty tables, this device
\* registered.
InitStore ==
    /\ memories = <<>>
    /\ knowledge = <<>>
    /\ devices = SQLiteRegisterDevice(<<>>, DeviceId, 0)
    /\ result = NoResult
    /\ stcalls = 0
    /\ stclock = 0
    /\ stored = [memories |-> NoStored, knowledge |-> NoStored]

\* the store when nobody uses it
StoreIdle == InitStore /\ focus = "none"

Init ==
    /\ InitManager
    /\ workload = OpNames
    /\ StoreIdle
    /\ BackgroundIdle

Next ==
    \E t \in Tasks :
        \/ Call(t)
        \/ AcquireAfterWait(t)
        \/ LoadIO(t)
        \/ LoadReturn(t)
        \/ SaveIO(t)
        \/ SaveReturn(t)

\* The conversation manager without listeners.
Spec == Init /\ [][Next]_vars

\* The callers' locals and the counters before the first call.
InitCallers ==
    /\ listeners = [e \in Events |-> <<>>]
    /\ pc = [t \in Tasks |-> "idle"]
    /\ call = [t \in Tasks |-> NoCall]
    /\ lock = [t \in Tasks |-> 0]
    /\ conv = [t \in Tasks |-> 0]
    /\ loaded = [t \in Tasks |-> NoneVal]
    /\ data = [t \in Tasks |-> NoneVal]
    /\ disp = [t \in Tasks |-> NoDisp]
    /\ ret = [t \in Tasks |-> NoRet]
    /\ calls = 0
    /\ lockOrder = [s \in Sessions |-> <<>>]
    /\ turnOf = <<>>

\* The manager at rest after start_conversation(s): s is in memory and stored.
StartedState(s) ==
    /\ objects = <<Conversation(s, ChatbotNameOf(s), 1)>>
    /\ active_conversations = (s :> 1)
    /\ conversation_locks = (s :> 1)
    /\ lockobjs = <<NewLock>>
    /\ conversations = SQLiteStoreConversation(<<>>, s, SerializeConversation(objects[1]))
    /\ clock = 1

\* The manager at rest after start_conversation(s), add_turn(s) and
\* end_conversation(s): s is stored as completed and neither in memory nor in
\* the lock map.
EndedState(s) ==
    /\ objects = <<[Conversation(s, ChatbotNameOf(s), 1) EXCEPT
                        !.turns = <<ConversationTurn(2, "u", 10, 2)>>,
                        !.end_time = Some(3), !.status = "completed"]>>
    /\ active_conversations = <<>>
    /\ conversation_locks = <<>>
    /\ lockobjs = <<NewLock>>
    /\ conversations = SQLiteStoreConversation(<<>>, s, SerializeConversation(objects[1]))
    /\ clock = 3

\* Callers that use add_turn and the reading operations only, on a manager
\* that is new, or at rest with the session started, or with the session ended.
InitAddTurn ==
    /\ workload = OpNames \ {"start_conversation", "end_conversation"}
    /\ StoreIdle
    /\ BackgroundIdle
    /\ \/ InitManager
       \/ InitCallers /\ \E s \in Sessions : StartedState(s)
       \/ InitCallers /\ \E s \in Sessions : EndedState(s)

SpecAddTurn == InitAddTurn /\ [][Next]_vars

\* The conversation manager over a storage whose calls can fail.
InitFault ==
    /\ InitManager
    /\ workload = {"start_conversation", "add_turn", "get_conversation_history",
                   "end_conversation"}
    /\ StoreIdle
    /\ BackgroundIdle

NextFault ==
    \/ Next
    \/ \E t \in Tasks : LoadFail(t)
    \/ \E t \in Tasks : SaveFail(t)

SpecFault == InitFault /\ [][NextFault]_vars

\* The conversation manager with listeners.
InitDispatch ==
    /\ InitManager
    /\ workload = OpNames \ ReadOps
    /\ StoreIdle
    /\ BackgroundIdle

NextDispatch ==
    \/ Next
    \/ \E t \in Tasks : DispatchResume(t)
    \/ \E e \in Events, k \in ListenerKinds : RegisterListener(e, k)
    \/ \E e \in Events, k \in ListenerKinds : UnregisterListener(e, k)

SpecDispatch == InitDispatch /\ [][NextDispatch]_vars

\* The conversation manager with listeners, over a storage whose calls can
\* fail, with callers of start_conversation and add_turn.
InitDispatchFault ==
    /\ InitManager
    /\ workload = {"start_conversation", "add_turn"}
    /\ StoreIdle
    /\ BackgroundIdle

NextDispatchFault ==
    \/ NextDispatch
    \/ \E t \in Tasks : LoadFail(t)
    \/ \E t \in Tasks : SaveFail(t)

SpecDispatchFault == InitDispatchFault /\ [][NextDispatchFault]_vars

NextStore ==
    \/ \E e \in Embeddings : BrainStoreMemory(e)
    \/ \E e \in Embeddings, s \in Sources : BrainStoreKnowledge(e, s)
    \/ \E id \in Ids, e \in Embeddings, d \in Devices : StoreMemory(id, e, d)
    \/ \E id \in Ids, e \in Embeddings, s \in Sources : StoreKnowledge(id, e, s)
    \/ \E id \in Ids : DeleteMemory(id)
    \/ \E id \in Ids : DeleteKnowledge(id)
    \/ GetCount
    \/ \E q \in Queries, k \in TopKs, f \in FiltersOver(Devices), ms \in MinSimilarities :
          RetrieveMemories(q, k, f, ms)
    \/ \E q \in Queries, k \in TopKs, f \in FiltersOver(Sources), ms \in MinSimilarities :
          RetrieveKnowledge(q, k, f, ms)

\* The memory / knowledge store of one brain, with callers that work on the
\* memories or on the knowledge.
InitStoreCallers ==
    /\ InitManager
    /\ workload = {}
    /\ InitStore
    /\ focus \in {"memories", "knowledge"}
    /\ BackgroundIdle

SpecStore == InitStoreCallers /\ [][NextStore]_vars


\* A CommunalBrain from its construction on, over a database file that is new
\* or has its tables from an earlier run, with a caller of initialize() and
\* close() and callers of the facade operations.
InitBrain ==
    /\ InitManager
    /\ ExtrasIdle
    /\ workload = {}
    /\ memories = <<>>
    /\ knowledge = <<>>
    /\ devices = <<>>
    /\ result = NoResult
    /\ stcalls = 0
    /\ stclock = 0
    /\ stored = [memories |-> NoStored, knowledge |-> NoStored]
    /\ focus = "memories"
    /\ BrainConstructed
    /\ schema \in BOOLEAN
    /\ WorkersIdle
    /\ conversations_dir = <<>>
    /\ archive_dir = <<>>
    /\ summaries_dir = <<>>
    /\ keep_originals = TRUE
    /\ wfocus = "brain"

NextBrain ==
    \/ Initialize
    \/ InitializeStorage
    \/ InitializeRegister
    \/ Close
    \/ CloseResume
    \/ \E i \in DOMAIN tasks : BrainSyncLoop(i)
    \/ schema /\ BrainStoreMemory(Unit(EmbeddingDim))
    \/ schema /\ RetrieveMemories(Unit(EmbeddingDim), 1, NoneVal, 0)
    \/ schema /\ GetMemoryStats
    \/ \E op \in {"store_memory", "retrieve_memories", "get_memory_stats"} :
          FacadeNoTable(op)

SpecBrain == InitBrain /\ [][NextBrain]_vars

\* the files that can be in conversations/ under a name at the start; they
\* age as the days pass
FilesNamed(name) ==
    {ConversationFile(name, size, 0, wellformed) :
        size \in FileSizes, wellformed \in BOOLEAN}

\* the directories of files of earlier runs
InitialDirs ==
    UNION {{d \in [S -> UNION {FilesNamed(n) : n \in S}] :
               \A n \in S : d[n] \in FilesNamed(n)} : S \in SUBSET InitialFileNames}

\* of these, the directories in which the files of session s1 are well formed
\* and those of session s2 are oversized and do not parse
InitialDirsWithBrokenFile ==
    {d \in InitialDirs :
        \A n \in DOMAIN d :
            IF SessionOf(n) = "s1" THEN d[n].wellformed
            ELSE ~d[n].wellformed /\ d[n].size > max_file_size_bytes /\ d[n].age_days = 0}

\* A SummarizerAgent or a SyncManager after construction, with one caller of
\* start and stop; the SummarizerAgent over a conversations/ directory that
\* holds files of earlier runs, to which new files are added.
InitWorkersOver(dirs) ==
    /\ InitManager
    /\ ExtrasIdle
    /\ workload = {}
    /\ StoreIdle
    /\ BrainConstructed
    /\ schema = TRUE
    /\ WorkersIdle
    /\ wfocus \in {"summarizer", "sync"}
    /\ archive_dir = <<>>
    /\ summaries_dir = <<>>
    /\ IF wfocus = "summarizer"
       THEN keep_originals \in BOOLEAN /\ conversations_dir \in dirs
       ELSE keep_originals = TRUE /\ conversations_dir = <<>>

InitWorkers == InitWorkersOver(InitialDirs)

NextWorkers ==
    \/ StartBackgroundMonitoring
    \/ StopBackgroundMonitoring
    \/ StopResume
    \/ \E i \in DOMAIN tasks : MonitoringLoop(i)
    \/ \E i \in DOMAIN tasks : ScanFails(i)
    \/ \E i \in DOMAIN tasks, name \in FileNames : ExamineFile(i, name)
    \/ \E i \in DOMAIN tasks, outcome \in {"answer", "raise"} : GeneratorReturns(i, outcome)
    \/ \E name \in FileNames \ InitialFileNames, size \in FileSizes : AddFile(name, size)
    \/ PassTime
    \/ Start
    \/ Stop
    \/ \E i \in DOMAIN tasks, outcome \in {"return", "raise"} : SyncLoop(i, outcome)

SpecWorkers == InitWorkers /\ [][NextWorkers]_vars

\* a step of a worker task
WorkerStep ==
    \E i \in DOMAIN tasks :
        \/ MonitoringLoop(i)
        \/ \E name \in FileNames : ExamineFile(i, name)
        \/ \E outcome \in {"answer", "raise"} : GeneratorReturns(i, outcome)
        \/ \E outcome \in {"return", "raise"} : SyncLoop(i, outcome)

\* The event loop runs every task that can run: a sleep ends, the generator
\* call returns or raises, and a caller that awaits a finished task resumes.
\* (The caller of start and stop makes one call at a time, so at most one
\* worker task can run at any moment.)
WorkersFairness == WF_vars(StopResume) /\ WF_vars(WorkerStep)

SpecWorkersFair ==
    InitWorkersOver(InitialDirsWithBrokenFile) /\ [][NextWorkers]_vars /\ WorkersFairness

\* The sync_operations table of one brain's store, with callers that store
\* operations of any device under any id and timestamp, read the pending
\* operations of a device and mark operations resolved.
InitSync ==
    /\ InitManager
    /\ workload = {}
    /\ InitStore
    /\ focus = "sync_operations"
    /\ BackgroundIdle

NextSync ==
    \/ \E id \in Ids, d \in Devices, ts \in OpTimestamps, r \in BOOLEAN :
          StoreSyncOperation(id, d, ts, r)
    \/ \E d \in Devices : GetPendingSyncOperations(d)
    \/ \E id \in Ids : MarkSyncOperationResolved(id)

SpecSync == InitSync /\ [][NextSync]_vars


\* A StorageAbstraction whose backends hold a 'cache' next to the primary,
\* with callers that store memories or knowledge.
InitCache ==
    /\ InitManager
    /\ workload = {}
    /\ InitStore
    /\ focus \in {"memories", "knowledge"}
    /\ BrainConstructed
    /\ schema = TRUE
    /\ WorkersIdle
    /\ conversations_dir = <<>>
    /\ archive_dir = <<>>
    /\ summaries_dir = <<>>
    /\ keep_originals = TRUE
    /\ wfocus = "none"
    /\ sync_operations = <<>>
    /\ cache = EmptyCache
    /\ writes = <<>>
    /\ LogConstructed
    /\ ContainerConstructed
    /\ NothingChecked
    /\ CallersIdle

NextCache ==
    \/ \E id \in Ids, e \in {Unit(EmbeddingDim), Ones(EmbeddingDim)}, d \in Devices, o \in CacheOutcomes :
          StoreMemoryWithCache(id, e, d, o)
    \/ \E id \in Ids, e \in {Unit(EmbeddingDim), Ones(EmbeddingDim)}, src \in Sources, o \in CacheOutcomes :
          StoreKnowledgeWithCache(id, e, src, o)
    \/ \E q \in {Unit(EmbeddingDim)}, k \in TopKs, f \in FiltersOver(Devices),
          reads \in {"answer", "raise"}, fills \in CacheOutcomes :
          RetrieveMemoriesWithCache(q, k, f, reads, fills)
    \/ \E q \in {Unit(EmbeddingDim)}, k \in TopKs, f \in FiltersOver(Sources),
          reads \in {"answer", "raise"}, fills \in CacheOutcomes :
          RetrieveKnowledgeWithCache(q, k, f, reads, fills)

SpecCache == InitCache /\ [][NextCache]_vars

\* The log file handler from its construction on a new file: records are
\* emitted, days pass, and the process starts again on the file it wrote.
InitLog ==
    /\ InitManager
    /\ workload = {}
    /\ StoreIdle
    /\ BackgroundIdle

NextLog ==
    \/ Emit
    \/ LogPassDay
    \/ LogRestart

SpecLog == InitLog /\ [][NextLog]_vars

\* A Container after construction, with callers that register services and
\* resolve them.
InitContainer ==
    /\ InitManager
    /\ workload = {}
    /\ StoreIdle
    /\ BackgroundIdle

NextContainer ==
    \/ \E i \in Interfaces, k \in FactoryKinds, sg \in BOOLEAN : RegisterFactory(i, k, sg)
    \/ \E i \in Interfaces, c \in Implementations, sg \in BOOLEAN :
          RegisterImplementation(i, c, sg)
    \/ \E i \in Interfaces : RegisterInstance(i)
    \/ \E i \in Interfaces : Resolve(i)

SpecContainer == InitContainer /\ [][NextContainer]_vars

\* The memories of one brain's store, written with items that carry any
\* timestamp, and read by similarity.
InitTies ==
    /\ InitManager
    /\ workload = {}
    /\ InitStore
    /\ focus = "memories"
    /\ BackgroundIdle

NextTies ==
    \/ \E id \in Ids, e \in {Unit(EmbeddingDim), Ones(EmbeddingDim)}, d \in Devices,
          ts \in ItemTimestamps : StoreMemoryAt(id, e, d, ts)
    \/ \E q \in Queries, k \in TopKs, f \in FiltersOver(Devices), ms \in MinSimilarities :
          RetrieveMemories(q, k, f, ms)

SpecTies == InitTies /\ [][NextTies]_vars

\* check_context_size over texts of every length up to MaxTextLen
InitContext == InitManager /\ workload = {} /\ StoreIdle /\ BackgroundIdle

NextContext ==
    \E len \in 0..MaxTextLen, generator \in {"answer", "raise"} :
        CheckContextSize(len, generator)

SpecContext == InitContext /\ [][NextContext]_vars

\* One SyncManager whose start() and stop() are called by NumCallers
\* coroutines: a call is made whenever its caller is not suspended in an
\* earlier one.
InitStartStop ==
    /\ InitWorkersOver(InitialDirs)
    /\ wfocus = "sync"

NextStartStop ==
    \/ \E c \in Callers : StartBy(c)
    \/ \E c \in Callers : StopBy(c)
    \/ \E c \in Callers : StopResumeBy(c)
    \/ \E i \in DOMAIN tasks, outcome \in {"return", "raise"} : SyncLoop(i, outcome)

SpecStartStop == InitStartStop /\ [][NextStartStop]_vars

\* CommunalBrain.store_memory and get_memory_stats over a database whose
\* statements can fail.
InitStoreIO == InitManager /\ workload = {} /\ InitStore /\ focus = "memories" /\ BackgroundIdle

NextStoreIO ==
    \/ \E e \in {Unit(EmbeddingDim), Ones(EmbeddingDim)}, write, heartbeat \in {"return", "raise"} :
          BrainStoreMemoryIO(e, write, heartbeat)
    \/ GetMemoryStats

SpecStoreIO == InitStoreIO /\ [][NextStoreIO]_vars

\* One CommunalBrain whose initialize() and close() are called by NumCallers
\* coroutines.
NextLifecycle ==
    \/ \E c \in Callers : InitializeBy(c)
    \/ \E c \in Callers : InitializeStorageBy(c)
    \/ \E c \in Callers : InitializeRegisterBy(c)
    \/ \E c \in Callers : CloseBy(c)
    \/ \E c \in Callers : CloseResumeBy(c)
    \/ \E i \in DOMAIN tasks : BrainSyncLoop(i)

SpecLifecycle == InitBrain /\ [][NextLifecycle]_vars

\* ------------------------------------------------------------------ claims
\* t is inside the locked section of an operation on session s: it has taken
\* the lock and not yet released it (its load from storage included).
InLockedSection(t, s) ==
    /\ call[t].session = s
    /\ pc[t] \in {"load_io", "load_ret", "save_io", "save_ret"}

IsPrefix(a, b) == Len(a) <= Len(b) /\ SubSeq(b, 1, Len(a)) = a

TurnIds(turns) == [i \in DOMAIN turns |-> turns[i].turn_id]

StoredTurnIds(s) ==
    IF s \in DOMAIN conversations THEN TurnIds(conversations[s].turns) ELSE <<>>

AllReturned == \A t \in Tasks : pc[t] = "idle"

\* the turn_ids of the add_turn calls made so far
CallTurnIds == {turnOf[c] : c \in DOMAIN turnOf}

C2_SessionSerialized ==
    \A s \in Sessions :
        Cardinality({t \in Tasks : InLockedSection(t, s)}) <= 1

\* C3: turns are append-only within a session: the turn list at an earlier
\* point is a prefix of the turn list at any later point, in memory and in
\* storage.
C3_TurnsAppendOnly ==
    [][\A s \in Sessions :
          /\ (s \in DOMAIN conversations) =>
                /\ s \in DOMAIN conversations'
                /\ IsPrefix(TurnIds(conversations[s].turns),
                            TurnIds(conversations'[s].turns))
          /\ (s \in DOMAIN active_conversations /\ s \in DOMAIN active_conversations') =>
                IsPrefix(TurnIds(objects[active_conversations[s]].turns),
                         TurnIds(objects'[active_conversations'[s]].turns))]_vars

\* the last call was a retrieval and it returned a list
Retrieved(op) == result.op = op /\ ~result.raised

\* the table a retrieval read
TableOf(op) == IF op = "retrieve_memories" THEN memories ELSE knowledge

\* C4: a retrieve_memories or retrieve_knowledge call with top_k >= 0 that
\* returns list L: |L| <= top_k, L is in non-increasing relevance_score order,
\* and every element of L has relevance_score >= min_similarity.
C4_RetrievalBounded ==
    \A op \in {"retrieve_memories", "retrieve_knowledge"} :
        Retrieved(op) =>
            LET L == result.list
            IN  /\ Len(L) <= result.top_k
                /\ \A i, j \in DOMAIN L :
                      i < j => L[i].relevance_score >= L[j].relevance_score
                /\ \A i \in DOMAIN L : L[i].relevance_score >= result.min_similarity

\* a retrieval with top_k = 1 and a threshold above 0 over a table of two rows
\* that both pass the threshold has returned one item
C4_Witness ==
    \E op \in {"retrieve_memories", "retrieve_knowledge"} :
        /\ Retrieved(op)
        /\ result.top_k = 1 /\ result.min_similarity > 0
        /\ Len(result.list) = 1
        /\ Len(TableOf(op)) = 2
        /\ \A i \in DOMAIN TableOf(op) :
              /\ Len(BytesToEmbedding(TableOf(op)[i].embedding)) = Len(result.query)
              /\ CosineSimilarity(result.query, BytesToEmbedding(TableOf(op)[i].embedding))
                    >= result.min_similarity

\* C5: every record returned by retrieve_memories with device_filter = d has
\* device_id = d, and every record returned by retrieve_knowledge with
\* source_filter = s has source = s.
C5_FilterRespected ==
    /\ (Retrieved("retrieve_memories") /\ result.filter # NoneVal) =>
          \A i \in DOMAIN result.list : result.list[i].device_id = result.filter[1]
    /\ (Retrieved("retrieve_knowledge") /\ result.filter # NoneVal) =>
          \A i \in DOMAIN result.list : result.list[i].source = result.filter[1]

Rows(tbl) == {tbl[i] : i \in DOMAIN tbl}

\* tbl2 is tbl after item was stored and again is tbl2 after item was stored
\* once more: the row of item has replaced the row of its id and no other row
\* has changed, no id has two rows, and the second store changed nothing
IsUpsert(tbl, tbl2, item, again) ==
    /\ Rows(tbl2) = {r \in Rows(tbl) : r.id # item.id} \cup {RowOf(item)}
    /\ Len(tbl2) = Cardinality({tbl2[i].id : i \in DOMAIN tbl2})
    /\ Rows(again) = Rows(tbl2)
    /\ Len(again) = Len(tbl2)

CountsAreLiveIds ==
    /\ SQLiteCount(memories) = Cardinality(stored.memories.live)
    /\ SQLiteCount(knowledge) = Cardinality(stored.knowledge.live)
    /\ {memories[i].id : i \in DOMAIN memories} = stored.memories.live
    /\ {knowledge[i].id : i \in DOMAIN knowledge} = stored.knowledge.live
    /\ result.op = "get_memory_count" =>
          result.count = Cardinality(stored.memories.live)
    /\ result.op = "get_knowledge_count" =>
          result.count = Cardinality(stored.knowledge.live)

\* C6: store_memory and store_knowledge are idempotent upserts by id, and
\* get_memory_count / get_knowledge_count equal the number of distinct ids
\* stored and not yet deleted.
C6_UpsertById ==
    /\ []CountsAreLiveIds
    /\ [][/\ result'.op \in {"store_memory", "storage.store_memory"} =>
                IsUpsert(memories, memories', result'.item[1],
                         StorageStoreMemory(memories', result'.item[1]))
          /\ result'.op \in {"store_knowledge", "storage.store_knowledge"} =>
                IsUpsert(knowledge, knowledge', result'.item[1],
                         StorageStoreKnowledge(knowledge', result'.item[1]))]_vars

\* a count taken after an item was stored under an id that had a row
C6_Witness ==
    /\ result.op = "get_memory_count"
    /\ stored.memories.replaced >= 1
    /\ result.count = 1

\* C7: every memory and knowledge record in the store has an embedding of
\* exactly D elements; a store with an embedding of another length is rejected
\* and stores nothing.
C7_EmbeddingsHaveDimension ==
    \A tbl \in {memories, knowledge} :
        \A i \in DOMAIN tbl : Len(BytesToEmbedding(tbl[i].embedding)) = EmbeddingDim

\* end_conversation of task t found its conversation, in memory or in storage
EndFound(t) == call[t].op = "end_conversation" /\ conv[t] # 0

StoredCompleted(tbl, s) ==
    /\ s \in DOMAIN tbl
    /\ tbl[s].status = "completed"
    /\ tbl[s].end_time # NoneVal

LastN(seq, n) == SubSeq(seq, Len(seq) - n + 1, Len(seq))
Min(a, b) == IF a <= b THEN a ELSE b

\* C9: get_conversation_history(session_id, max_turns) returns at most
\* max_turns turns for every max_turns >= 0, and they are the last
\* min(max_turns, n) of the session's n turns in their original order.
C9_HistoryIsLastTurns ==
    \A t \in Tasks :
        (call[t].op = "get_conversation_history" /\ ret[t].status = "returned") =>
            /\ Len(ret[t].value) <= call[t].max_turns
            /\ ret[t].value = LastN(ret[t].of, Min(call[t].max_turns, Len(ret[t].of)))

\* the call of task t has dispatched its event and is back at its caller
Dispatched(t) == pc[t] = "idle" /\ disp[t].event # ""

\* C10: an event dispatched to the listeners l1..ln registered for it invokes
\* every listener exactly once in registration order, also when an earlier
\* listener raises, synchronously or from its awaited result, and no listener
\* exception reaches the caller of start_conversation, add_turn or
\* end_conversation.
C10_EveryListenerOnce ==
    \A t \in Tasks :
        /\ ret[t].status # "raised"
        /\ Dispatched(t) =>
              /\ ret[t].status = "returned"
              /\ disp[t].log = [i \in DOMAIN disp[t].snap |-> i]

\* a dispatch to two listeners of which the first raised has returned
C10_Witness ==
    \E t \in Tasks :
        /\ Dispatched(t)
        /\ Len(disp[t].snap) = 2
        /\ disp[t].snap[1] \in {"sync_raise", "async_raise"}
        /\ disp[t].log = <<1, 2>>

\* C11: while the brain is not initialized (before the first initialize() and
\* after a close() has returned) and no initialize() is under way, every
\* facade operation that is called fails.
C11_UninitializedBrainRefuses ==
    [][(stcalls' = stcalls + 1 /\ ~initialized /\ bpc = "idle") => result'.raised]_vars

\* a state in which initialize() was called on an initialized brain
InitializeRepeated == wlog.call = "initialize_returned_early"

\* C12: initialize() on an initialized brain changes nothing: storage is not
\* initialized again, the device is not registered again, no task is created
\* and the call returns at once.
C12_InitializeIdempotent ==
    [][(initialized /\ bpc = "idle" /\ wlog'.call = "initialize_returned_early" /\ bgcalls' # bgcalls)
         => /\ bpc' = "idle"
            /\ UNCHANGED <<initialized, sync_task, schema, opened, tasks, stVars>>]_vars
    /\ [](Cardinality(LiveTasks("brain_sync")) <= 1)

C12_Witness == InitializeRepeated /\ opened.storage = 1 /\ Len(tasks) = 1


\* C13: a store_memory / store_knowledge that returns has, in that call,
\* written this device's row with a last_seen later than the one it had, and
\* the stored last_seen is not earlier than the timestamp of the item written.
C13_HeartbeatCoversWrite ==
    [][(stcalls' # stcalls /\ result'.op \in {"store_memory", "store_knowledge"}
          /\ ~result'.raised)
         => /\ DeviceId \in DOMAIN devices'
            /\ FromIsoFormat(devices'[DeviceId].last_seen) >= result'.item[1].timestamp
            /\ DeviceId \in DOMAIN devices =>
                  FromIsoFormat(devices'[DeviceId].last_seen)
                      > FromIsoFormat(devices[DeviceId].last_seen)]_vars

C13_Witness ==
    /\ result.op = "store_knowledge" /\ stcalls >= 2
    /\ FromIsoFormat(devices[DeviceId].last_seen) > result.item[1].timestamp
    /\ result.item[1].timestamp > 1

\* the task i has just gone on from the generator call for the file `name`
Resumed(i, name) ==
    /\ i \in DOMAIN tasks /\ tasks[i].pc = "generating" /\ ~tasks[i].cancel
    /\ tasks[i].cur = Some(name) /\ tasks'[i].pc # "generating"

\* the summary blob of the file exists and counts its messages
HasSummary(summaries, file) ==
    /\ file.session_id \in DOMAIN summaries
    /\ summaries[file.session_id].original_message_count = Len(file.messages)

\* C14: when the summarizer has processed a file with the generator's answer
\* and keep_originals is true, the file is no longer in conversations/, the
\* archive holds the same file under the same name, and the summary blob of
\* its session exists and counts the messages of the original.
C14_ProcessedFileArchived ==
    [][\A i \in DOMAIN tasks, name \in FileNames :
          (Resumed(i, name) /\ wlog'.did = "summarized" /\ keep_originals)
            => /\ name \notin DOMAIN conversations_dir'
               /\ name \in DOMAIN archive_dir'
               /\ archive_dir'[name] = conversations_dir[name]
               /\ HasSummary(summaries_dir', conversations_dir[name])]_vars

C14_Witness ==
    /\ wlog.did = "summarized" /\ keep_originals
    /\ DOMAIN archive_dir = {"s1_1.json", "s1_2.json"}
    /\ wlog.file = "s1_2.json"

\* C15: when the generator call fails while a file is being summarized, the
\* three directories are left as they were: no summary blob is written and
\* the original is neither archived nor deleted.
C15_GeneratorFailureLeavesFile ==
    [][\A i \in DOMAIN tasks, name \in FileNames :
          (Resumed(i, name) /\ wlog'.did = "generator_failed")
            => UNCHANGED <<conversations_dir, archive_dir, summaries_dir>>]_vars

\* a worker of the kind is alive and has not been cancelled by a stop
KeepsRunning(kind) == \E i \in LiveTasks(kind) : ~tasks[i].cancel

\* the files that the running summarizer has still to examine in its scan
Todo == UNION {tasks[i].todo : i \in {j \in LiveTasks("summarizer") : ~tasks[j].cancel}}

\* C16: an error at a file or at a scan leaves the worker alive; every file
\* that remains in the snapshot of a scan is examined, and after an error a
\* further scan starts, unless the worker is stopped.
C16_ErrorsStopNothing ==
    /\ [][\A i \in DOMAIN tasks :
            (wlog'.did \in {"file_error", "scan_error"} /\ tasks'[i] # tasks[i])
              => /\ tasks'[i].pc \in {"scanning", "sleeping", "error_sleep"}
                 /\ tasks'[i].todo = tasks[i].todo \ {wlog'.file}]_vars
    /\ \A name \in FileNames : (name \in Todo) ~> (name \notin Todo)
    /\ (KeepsRunning("summarizer") /\ wlog.did \in {"file_error", "scan_error"})
          ~> (~KeepsRunning("summarizer") \/ wlog.did = "scan")

C16_Witness ==
    /\ wlog.did = "file_error"
    /\ KeepsRunning("summarizer") /\ Todo # {}

\* the file is larger than max_file_size_bytes or older than the age limit
MeetsTrigger(file) ==
    file.size > max_file_size_bytes \/ file.age_days > FileAgeLimitDays

\* the file `name` is in conversations/, parses and meets a trigger
Due(name) ==
    /\ name \in DOMAIN conversations_dir
    /\ conversations_dir[name].wellformed
    /\ MeetsTrigger(conversations_dir[name])

\* C17: while the worker runs, a well-formed file that is oversized or older
\* than the age limit eventually leaves conversations/; a file leaves
\* conversations/ only if it meets a trigger, and with its summary written.
C17_DueFilesSummarized ==
    /\ \A name \in FileNames :
          (Due(name) /\ is_running) ~> (name \notin DOMAIN conversations_dir \/ ~is_running)
    /\ [][\A name \in DOMAIN conversations_dir :
            name \notin DOMAIN conversations_dir'
              => /\ MeetsTrigger(conversations_dir[name])
                 /\ HasSummary(summaries_dir', conversations_dir[name])]_vars

C17_Witness ==
    /\ wlog.did = "summarized" /\ keep_originals
    /\ wlog.file \in DOMAIN archive_dir
    /\ archive_dir[wlog.file].size <= max_file_size_bytes
    /\ "s1_2.json" \in DOMAIN conversations_dir

\* C18: a file leaves conversations/ only in a step that has written its
\* summary blob, and no summary blob is ever removed; a cancelled worker
\* changes no directory; and when no worker is running and no stop is under
\* way, no worker is alive and no file is summarized, archived or deleted.
C18_SummaryBeforeArchive ==
    /\ [][\A name \in DOMAIN conversations_dir :
            name \notin DOMAIN conversations_dir'
              => HasSummary(summaries_dir', conversations_dir[name])]_vars
    /\ [][DOMAIN summaries_dir \subseteq DOMAIN summaries_dir']_vars
    /\ [][(\E i \in DOMAIN tasks : tasks[i].cancel /\ tasks'[i] # tasks[i])
            => UNCHANGED <<conversations_dir, archive_dir, summaries_dir>>]_vars
    /\ []((ctl = "idle" /\ ~is_running) => LiveTasks("summarizer") = {})
    /\ [][(ctl = "idle" /\ ~is_running)
            => /\ UNCHANGED <<archive_dir, summaries_dir>>
               /\ DOMAIN conversations_dir \subseteq DOMAIN conversations_dir']_vars

C18_Witness ==
    /\ wlog.call = "stopped" /\ wlog.did = "exited"
    /\ wlog.file \in DOMAIN conversations_dir
    /\ summaries_dir # <<>>

\* C19: at most one summarizer task and at most one sync task is alive, and a
\* start on a running worker changes neither the flag nor the tasks.
C19_OneWorkerAtATime ==
    /\ [](Cardinality(LiveTasks("summarizer")) <= 1 /\ Cardinality(LiveTasks("sync")) <= 1)
    /\ [][(wlog'.call = "start_returned_early" /\ wlog'.at # wlog.at)
            => UNCHANGED <<tasks, is_running, monitoring_task, running,
                           manager_sync_task>>]_vars

C19_Witness ==
    /\ wlog.call = "start_returned_early" /\ wfocus = "sync"
    /\ Len(tasks) = 2 /\ Cardinality(LiveTasks("sync")) = 1

\* C20: a tick whose perform_sync raises leaves the sync worker alive and
\* asleep; the worker then wakes and ticks again, unless it is stopped; and
\* the worker ends only when it has been cancelled.
C20_SyncErrorsStopNothing ==
    /\ [][\A i \in DOMAIN tasks :
            /\ (wlog'.did = "sync_error" /\ tasks'[i] # tasks[i])
                  => tasks'[i].pc = "error_sleep"
            /\ (tasks[i].kind = "sync" /\ tasks[i].pc # "done" /\ tasks'[i].pc = "done")
                  => tasks[i].cancel]_vars
    /\ (KeepsRunning("sync") /\ wlog.did = "sync_error")
          ~> (~KeepsRunning("sync") \/ wlog.did = "slept_after_error")
    /\ (KeepsRunning("sync") /\ wlog.did = "slept_after_error")
          ~> (~KeepsRunning("sync") \/ wlog.did \in {"tick", "sync_error"})

C20_Witness ==
    /\ wlog.did = "slept_after_error"
    /\ KeepsRunning("sync") /\ \E i \in LiveTasks("sync") : tasks[i].pc = "sleeping"

\* the unresolved operations of a device in the order store_sync_operation
\* inserted them (the table keeps its rows in that order)
PendingAsInserted(tbl, device_id) ==
    LET rows == SelectSeq(tbl, LAMBDA r : r.device_id = device_id /\ r.resolved = 0)
    IN  [i \in DOMAIN rows |->
            SyncOperation(rows[i].operation_id, rows[i].device_id,
                          rows[i].created_at, FALSE)]

\* C21: get_pending_sync_operations(d) returns exactly the stored operations
\* with device_id = d and resolved = false, in the order in which
\* store_sync_operation inserted them, whatever timestamps they carry.
C21_PendingInInsertionOrder ==
    result.op = "get_pending_sync_operations"
        => result.list = PendingAsInserted(sync_operations, result.filter[1])

MarkStep == stcalls' # stcalls /\ result'.op = "mark_sync_operation_resolved"

WithoutOperation(list, operation_id) ==
    SelectSeq(list, LAMBDA o : o.operation_id # operation_id)

\* C22: mark_sync_operation_resolved(id) changes only the operation with that
\* id: the pending list of every device is the list it was before without
\* that operation, the others in unchanged order, and every other row and
\* every other table is as it was.
C22_MarkResolvedFrame ==
    [][MarkStep =>
          /\ \A d \in Devices :
                SQLiteGetPendingSyncOperations(sync_operations', d)
                    = WithoutOperation(SQLiteGetPendingSyncOperations(sync_operations, d),
                                       result'.id)
          /\ Len(sync_operations') = Len(sync_operations)
          /\ \A i \in DOMAIN sync_operations :
                IF sync_operations[i].operation_id = result'.id
                THEN sync_operations'[i] = [sync_operations[i] EXCEPT !.resolved = 1]
                ELSE sync_operations'[i] = sync_operations[i]
          /\ UNCHANGED <<memories, knowledge, devices, conversations>>]_vars

\* a pending operation was marked resolved while its device has another
\* pending operation
C22_Witness ==
    /\ result.op = "mark_sync_operation_resolved"
    /\ result.item # NoneVal
    /\ result.item[1].resolved = 0
    /\ \E i \in DOMAIN sync_operations :
          /\ sync_operations[i].operation_id # result.id
          /\ sync_operations[i].device_id = result.item[1].device_id
          /\ sync_operations[i].resolved = 0

\* C23: mark_sync_operation_resolved with an operation_id that is not in the
\* store raises a NotFound error and changes no state.
C23_UnknownOperationRaises ==
    [][(MarkStep /\ result'.item = NoneVal)
          => /\ result'.raised
             /\ UNCHANGED <<sync_operations, memories, knowledge, devices>>]_vars

CachedStoreStep ==
    /\ stcalls' # stcalls
    /\ cache # NoneVal
    /\ result'.op \in {"storage.store_memory", "storage.store_knowledge"}

\* C24: on store_memory or store_knowledge through the storage abstraction
\* with a cache backend present, the primary is written before the cache, and
\* a failing cache write is never surfaced: the call succeeds and the item is
\* in the primary.
C24_CacheFailureNotSurfaced ==
    [][CachedStoreStep =>
          /\ writes'[1] = "primary"
          /\ ~result'.raised
          /\ LET tbl == IF result'.op = "storage.store_memory"
                        THEN memories' ELSE knowledge'
             IN  \E i \in DOMAIN tbl : tbl[i] = RowOf(result'.item[1])]_vars

WithinLifetime(c) ==
    \A i \in DOMAIN c.turns :
        /\ c.start_time <= c.turns[i].timestamp
        /\ c.end_time # NoneVal => c.turns[i].timestamp <= c.end_time[1]

\* C25: for every conversation in memory or in storage, every turn t has
\* start_time <= t.timestamp, and t.timestamp <= end_time if end_time is set:
\* no turn is appended to a conversation that has been ended.
C25_TurnsWithinLifetime ==
    /\ \A s \in DOMAIN active_conversations :
          WithinLifetime(objects[active_conversations[s]])
    /\ \A s \in DOMAIN conversations :
          WithinLifetime(ConversationFromData(conversations[s]))

\* a step in which listeners of the event that call t dispatches are called
ListenerReceives(t) ==
    /\ pc[t] \in {"save_ret", "dispatch"}
    /\ <<pc[t], disp[t]>> # <<pc'[t], disp'[t]>>
    /\ Len(disp'[t].log) > (IF pc[t] = "dispatch" THEN Len(disp[t].log) ELSE 0)

StoredTurnsContain(tbl, s, turn_id) ==
    /\ s \in DOMAIN tbl
    /\ \E i \in DOMAIN tbl[s].turns : tbl[s].turns[i].turn_id = turn_id

\* C26: whenever a listener receives turn_appended for turn t of session s,
\* the conversation stored for s holds t, and whenever a listener receives
\* conversation_started for s, a conversation is stored for s.
C26_StoredBeforeDispatch ==
    [][\A t \in Tasks :
          ListenerReceives(t) =>
             /\ disp'[t].event = EVENT_TURN_APPENDED =>
                    StoredTurnsContain(conversations', call[t].session,
                                       turnOf'[call[t].id])
             /\ disp'[t].event = EVENT_CONVERSATION_STARTED =>
                    call[t].session \in DOMAIN conversations']_vars

\* C27: end_conversation(s) for a session found neither in memory nor in
\* storage leaves active_conversations and storage as they are and dispatches
\* no event; an end_conversation(s) that finds s already ended dispatches no
\* conversation_ended and does not change the stored end_time.
C27_EndConversationNoop ==
    [][\A t \in Tasks :
          call[t].op = "end_conversation" =>
             /\ (pc[t] = "load_ret" /\ pc'[t] # "load_ret" /\ loaded[t] = NoneVal) =>
                    /\ UNCHANGED <<active_conversations, conversations>>
                    /\ disp'[t].event = ""
             /\ (loaded[t] # NoneVal /\ loaded[t][1].status = "completed") =>
                    /\ (pc[t] = "save_io" /\ pc'[t] = "save_ret") =>
                           conversations'[call[t].session].end_time
                               = loaded[t][1].end_time
                    /\ disp'[t].event # EVENT_CONVERSATION_ENDED]_vars

\* C28: after every emit, each line of the log file whose first 19 characters
\* parse as a timestamp is at most max_age_days old, and the file holds at
\* most max_lines entries.
C28_LogFileFresh ==
    [][log_emits' # log_emits =>
          /\ \A i \in DOMAIN log_file' : log_now' - LogTime(log_file'[i]) <= max_age_days
          /\ Len(log_file') <= max_lines]_vars

\* C29: a service registered as a singleton (by register_instance, or by
\* register with singleton=True given an implementation class or a factory)
\* resolves to the same instance on every resolve call.
C29_SingletonResolvesSame ==
    \A i \in Interfaces :
        resolves[i].singleton => Cardinality(resolves[i].got) <= 1

MatchesFilter(row, filter) == filter = NoneVal \/ row.device_id = filter[1]

\* the at most 10 * top_k most recently created rows that match the filter
RecentWindow(tbl, top_k, filter) ==
    Take(SortDesc(SelectSeq(tbl, LAMBDA r : MatchesFilter(r, filter)), "created_at"),
         10 * top_k)

IsTopOfWindow(list, window, q, top_k) ==
    LET ids == {list[j].id : j \in DOMAIN list}
    IN  /\ ids \subseteq {window[i].id : i \in DOMAIN window}
        /\ Len(list) = Min(top_k, Len(window))
        /\ \A i \in DOMAIN window, j \in DOMAIN list :
              window[i].id \notin ids =>
                 CosineSimilarity(q, BytesToEmbedding(window[i].embedding))
                     <= list[j].relevance_score

\* C30: the backend's retrieve_memories(q, top_k, filter) returns exactly the
\* top_k highest-scoring records among the at most 10 * top_k most recently
\* created rows that match the filter; a matching record older than that
\* window is never returned.
C30_TopOfRecentWindow ==
    \A q \in Queries, k \in TopKs, f \in FiltersOver(Devices) :
        LET r == SQLiteRetrieveMemories(memories, q, k, f)
        IN  ~r.raised => IsTopOfWindow(r.list, RecentWindow(memories, k, f), q, k)

\* the place of an id in lexicographic order
IdRank(id) == CASE id = "id_1" -> 1 [] id = "id_2" -> 2 [] OTHER -> 3

\* a comes before b in the order the ranking is specified to have
RankedBefore(a, b) ==
    \/ a.relevance_score > b.relevance_score
    \/ /\ a.relevance_score = b.relevance_score
       /\ \/ a.timestamp > b.timestamp
          \/ a.timestamp = b.timestamp /\ IdRank(a.id) < IdRank(b.id)

\* C31: of two returned records with equal relevance_score the one with the
\* larger created_at comes first, and with equal created_at the one with the
\* lexicographically smaller id, so the order is fully determined.
C31_TiesBrokenByAgeThenId ==
    Retrieved("retrieve_memories") =>
        \A i, j \in DOMAIN result.list :
            i < j => RankedBefore(result.list[i], result.list[j])

CachedReadStep ==
    /\ stcalls' # stcalls
    /\ cache # NoneVal
    /\ result'.op \in {"storage.retrieve_memories", "storage.retrieve_knowledge"}

\* what a backend with these rows answers to the query of the last call
AnswerOf(tbl, res) ==
    Ranked(Candidates(tbl, res.top_k, res.filter,
                      IF res.op = "storage.retrieve_memories" THEN "device_id" ELSE "source"),
           res.query, res.top_k).list

CacheRows(c, op) == IF op = "storage.retrieve_memories" THEN c[1].memories ELSE c[1].knowledge

PrimaryRows(op) == IF op = "storage.retrieve_memories" THEN memories ELSE knowledge

\* C32: a retrieve_memories / retrieve_knowledge through the storage
\* abstraction that returns gives the cache's answer whenever that is a
\* non-empty list, without asking the primary; otherwise it gives the
\* primary's answer and has written each returned record to the cache once.
C32_CacheFirstRead ==
    [][(CachedReadStep /\ ~result'.raised) =>
          LET cached == AnswerOf(CacheRows(cache, result'.op), result')
              primary == AnswerOf(PrimaryRows(result'.op), result')
          IN  IF cached # <<>>
              THEN /\ result'.list = cached
                   /\ writes' = <<"cache_read">>
                   /\ cache' = cache
              ELSE /\ result'.list = primary
                   /\ writes' = <<"cache_read", "primary_read">>
                                    \o [i \in DOMAIN primary |-> "cache_write"]
                   /\ \A i \in DOMAIN primary :
                         \E j \in DOMAIN CacheRows(cache', result'.op) :
                             CacheRows(cache', result'.op)[j] = RowOf(primary[i])]_vars

\* the cache answered with a list that the primary would not have given
C32_Witness ==
    /\ result.op = "storage.retrieve_memories"
    /\ ~result.raised
    /\ writes = <<"cache_read">>
    /\ result.list # <<>>
    /\ result.list # AnswerOf(memories, result)

\* the cache had no answer, the primary's was returned and put into the cache
C32_WitnessFilled ==
    /\ result.op = "storage.retrieve_knowledge"
    /\ ~result.raised
    /\ Len(writes) > 2
    /\ Len(cache[1].knowledge) = Len(result.list)

\* C33: once every conversation-manager operation has returned, every
\* session_id with an entry in the lock map also has an entry in
\* active_conversations.
C33_LocksOnlyForActive ==
    AllReturned => DOMAIN conversation_locks \subseteq DOMAIN active_conversations

\* C34: check_context_size(text) returns needs_summary = true exactly when
\* len(text) > 4 * max_context_tokens, and (false, null) for every shorter
\* text.
C34_NeedsSummaryAboveThreshold ==
    checks > 0 =>
        /\ context_ret[1] = (context_text > 4 * max_context_tokens)
        /\ context_text <= 4 * max_context_tokens => context_ret = <<FALSE, NoneVal>>

\* C34 (amended): check_context_size(text) returns needs_summary = true
\* exactly when len(text) // 4 exceeds max_context_tokens, i.e. when
\* len(text) >= 4 * max_context_tokens + 4, then together with a summary
\* text, and returns (false, null) for every shorter text.
C34_NeedsSummaryByWholeTokens ==
    checks > 0 =>
        IF context_text >= 4 * max_context_tokens + 4
        THEN context_ret[1] = TRUE /\ context_ret[2] # NoneVal
        ELSE context_ret = <<FALSE, NoneVal>>

\* a text of 4 * max_context_tokens + 3 characters was found short enough
C34_Witness ==
    /\ checks > 0
    /\ context_text = 4 * max_context_tokens + 3
    /\ context_ret = <<FALSE, NoneVal>>

AllCallsReturned == \A c \in Callers : callers[c].pc = "idle"

\* C35: once the start() and stop() calls on a SyncManager have returned,
\* _running is true exactly when _sync_task refers to a live loop task, and
\* no loop task is alive that _sync_task does not refer to.
C35_RunningIffTracked ==
    (wfocus = "sync" /\ AllCallsReturned) =>
        /\ running <=> IsPending(tasks, manager_sync_task)
        /\ \A i \in LiveTasks("sync") : manager_sync_task = Some(i)

\* C36: under any interleaving of initialize() calls on one CommunalBrain at
\* most one sync loop task is alive, and when a close() has returned and
\* nothing else is in flight no sync loop is alive.
C36_OneSyncLoopUntilClose ==
    wfocus = "brain" =>
        /\ Cardinality(LiveTasks("brain_sync")) <= 1
        /\ (AllCallsReturned /\ ~initialized) => LiveTasks("brain_sync") = {}

\* C37: no get_conversation_history, get_conversation_summary,
\* export_conversation_snapshot or add_turn puts a conversation whose status
\* is not 'active' into active_conversations.
C37_OnlyActiveInMemory ==
    [][\A t \in Tasks :
          (/\ call[t].op \in ReadOps \cup {"add_turn"}
           /\ pc[t] = "load_ret" /\ pc'[t] # "load_ret"
           /\ call[t].session \notin DOMAIN active_conversations
           /\ call[t].session \in DOMAIN active_conversations')
          => objects'[active_conversations'[call[t].session]].status = "active"]_vars

\* C38: a CommunalBrain.store_memory call that raises has persisted no
\* memory record.
C38_StoreMemoryAllOrNothing ==
    [][(stcalls' # stcalls /\ result'.op = "store_memory" /\ result'.raised)
          => memories' = memories]_vars

\* C39: a retrieve_memories with a query embedding of dimension EmbeddingDim
\* returns a list, whatever the earlier successful store_memory calls stored.
C39_RetrievalNeverRaises ==
    [][(/\ stcalls' # stcalls
        /\ result'.op = "retrieve_memories"
        /\ Len(result'.query) = EmbeddingDim)
       => ~result'.raised]_vars

\* C40: when the summarizer has processed a file with the generator's
\* answer, there is for every original in the archive a summary blob of its
\* session whose original_message_count is the number of messages of that
\* original.
C40_EveryOriginalKeepsItsSummary ==
    [][(wlog'.did = "summarized" /\ archive_dir' # archive_dir)
          => \A name \in DOMAIN archive_dir' :
                 /\ archive_dir'[name].session_id \in DOMAIN summaries_dir'
                 /\ summaries_dir'[archive_dir'[name].session_id].original_message_count
                        = Len(archive_dir'[name].messages)]_vars

====
